---- MODULE Spec2Model ----
(***************************************************************************)
(* FerrisBot: the subscriber store (storage.rs), the interaction handlers  *)
(* (main.rs) and the notification scheduler (scheduler.rs).                *)
(*                                                                         *)
(* A Rust String is a sequence of one-character strings, so that trim,     *)
(* split_once, starts_with, replace and parse::<u8> are computed the way   *)
(* the code computes them.  Cyrillic keyboard entries are transliterated.  *)
(***************************************************************************)
EXTENDS Integers, Sequences, FiniteSets, TLC

VARIABLES
    time_in,    \* SpecTime: the &str handed to is_valid_time_format
    verdict,    \* SpecTime: "pending", then "accept" (true) or "reject" (false)
    data,       \* JsonStorage.data: the Vec<UserSettings> behind the RwLock
    file,       \* the backing file at file_path
    backup,     \* its '.backup' sibling
    writer,     \* the task holding the RwLock's write guard, 0 for none
    st,         \* SpecStore: each task's place in a store call
    boot,       \* history: the file JsonStorage::new read and the branch it took
    lastSaved,  \* history: per id, the record of the last save_user that returned
    lastWrite,  \* history: the outcome of the most recent fs::write, "none" before any
    once,       \* history: the save_user that returned last, with the table and file it left
    persisted,  \* SpecLoad history: the table of the last file write that succeeded
    unsaved,    \* SpecLoad history: per id, the record last saved when its file write failed
    hnd,        \* Spec: each handler task's place in its handler
    said,       \* Spec: the last message a handler sent: to whom, and which
    ops,        \* Spec: the updates dispatched so far
    clock,      \* SpecSched: the wall clock, what Local::now() returns
    snapshot,   \* SpecSched: the tick's users, what get_all_users() returned
    now,        \* SpecSched: the tick's captured time
    sched,      \* SpecSched: the scheduler loop's place, and the ticks begun
    log,        \* history: the tick's get_weather calls and send_message calls
    wall,       \* SpecClock history: the day and time each tick captured,
                \* whether the wall clock has been set back, and whether the
                \* work of a tick has taken a minute or more
    twin        \* SpecTwin: a second tick, on a snapshot of other cute_mode values

vTime == <<time_in, verdict>>
vStore == <<data, file, backup, writer>>
vHist == <<boot, lastSaved, lastWrite, once, persisted, unsaved>>
vHnd == <<hnd, said, ops>>
vSched == <<clock, snapshot, now, sched, log, wall, twin>>
vars == <<time_in, verdict, data, file, backup, writer, st, boot, lastSaved, lastWrite, once,
          persisted, unsaved,
          hnd, said, ops, clock, snapshot, now, sched, log, wall, twin>>

(***************************************************************************)
(* Strings                                                                 *)
(***************************************************************************)
DigitVal == ("0" :> 0) @@ ("1" :> 1) @@ ("2" :> 2) @@ ("3" :> 3) @@ ("4" :> 4)
            @@ ("5" :> 5) @@ ("6" :> 6) @@ ("7" :> 7) @@ ("8" :> 8) @@ ("9" :> 9)

IsDigit(c) == c \in DOMAIN DigitVal

\* char::is_whitespace, for the characters the model uses
IsWhite(c) == c \in {" ", "\n", "\t"}

RECURSIVE TrimStart(_)
TrimStart(s) ==
    IF s # <<>> /\ IsWhite(Head(s)) THEN TrimStart(Tail(s)) ELSE s

RECURSIVE TrimEnd(_)
TrimEnd(s) ==
    IF s # <<>> /\ IsWhite(s[Len(s)]) THEN TrimEnd(SubSeq(s, 1, Len(s) - 1)) ELSE s

\* str::trim
Trim(s) == TrimEnd(TrimStart(s))

\* str::starts_with
StartsWith(s, p) == Len(s) >= Len(p) /\ SubSeq(s, 1, Len(p)) = p

\* str::replace(pat, ""): every non-overlapping match of pat, left to right
RECURSIVE Remove(_, _)
Remove(s, p) ==
    IF s = <<>> THEN <<>>
    ELSE IF StartsWith(s, p) THEN Remove(SubSeq(s, Len(p) + 1, Len(s)), p)
    ELSE <<Head(s)>> \o Remove(Tail(s), p)

\* index of the first c in s, 0 when there is none
RECURSIVE FindFrom(_, _, _)
FindFrom(s, c, i) ==
    IF i > Len(s) THEN 0
    ELSE IF s[i] = c THEN i
    ELSE FindFrom(s, c, i + 1)

\* str::split_once(':'): None, or the parts before and after the first ':'
SplitOnce(s, c) ==
    LET i == FindFrom(s, c, 1) IN
    IF i = 0 THEN [some |-> FALSE, left |-> <<>>, right |-> <<>>]
    ELSE [some |-> TRUE, left |-> SubSeq(s, 1, i - 1), right |-> SubSeq(s, i + 1, Len(s))]

U8Max == 255

\* the digits of a u8 literal, accumulated with checked arithmetic:
\* -1 for a non-digit or for a value past u8::MAX
RECURSIVE Accumulate(_, _)
Accumulate(digits, acc) ==
    IF digits = <<>> THEN acc
    ELSE IF ~IsDigit(Head(digits)) THEN -1
    ELSE LET v == acc * 10 + DigitVal[Head(digits)] IN
         IF v > U8Max THEN -1 ELSE Accumulate(Tail(digits), v)

\* str::parse::<u8>: Err for "", "+", "-", a non-digit or an overflow; one
\* leading '+' is accepted, a leading '-' is a non-digit for an unsigned type
ParseU8(s) ==
    LET digits == IF Len(s) > 1 /\ s[1] = "+" THEN Tail(s) ELSE s
        v == Accumulate(digits, 0) IN
    IF s = <<>> \/ v < 0 THEN [ok |-> FALSE, val |-> 0]
    ELSE [ok |-> TRUE, val |-> v]

\* main.rs is_valid_time_format
is_valid_time_format(time) ==
    LET parts == SplitOnce(time, ":")
        hours == ParseU8(parts.left)
        minutes == ParseU8(parts.right) IN
    IF parts.some /\ hours.ok /\ minutes.ok
    THEN hours.val < 24 /\ minutes.val < 60
    ELSE FALSE

(***************************************************************************)
(* storage.rs: UserSettings and its JSON form                               *)
(***************************************************************************)
\* Option<String>
None == [some |-> FALSE, v |-> <<>>]
Some(s) == [some |-> TRUE, v |-> s]

\* storage.rs UserSettings
UserSettings(id, city, time, cute, state) ==
    [user_id |-> id, city |-> city, notification_time |-> time,
     cute_mode |-> cute, state |-> state]

\* the record every handler builds when get_user returns None
DefaultUser(id) == UserSettings(id, None, None, FALSE, None)

\* A file's text is a sequence of JSON tokens (commas and colons left out):
\* k is the token's kind, name a key's name, s a string's characters,
\* n a number's value.
Tok(k, name, s, n) == [k |-> k, name |-> name, s |-> s, n |-> n]
LBrack == Tok("[", "", <<>>, 0)
RBrack == Tok("]", "", <<>>, 0)
LBrace == Tok("{", "", <<>>, 0)
RBrace == Tok("}", "", <<>>, 0)
White == Tok("ws", "", <<>>, 0)
Key(name) == Tok("key", name, <<>>, 0)
JNum(n) == Tok("num", "", <<>>, n)
JBool(b) == Tok(IF b THEN "true" ELSE "false", "", <<>>, 0)
JOpt(o) == IF o.some THEN Tok("str", "", o.v, 0) ELSE Tok("null", "", <<>>, 0)

\* SerUser with the state field skipped (written as null)
SerUser_SkipState(u) ==
    << LBrace,
       Key("user_id"), JNum(u.user_id),
       Key("city"), JOpt(u.city),
       Key("notification_time"), JOpt(u.notification_time),
       Key("cute_mode"), JBool(u.cute_mode),
       Key("state"), JOpt(None),
       RBrace >>

\* serde's Serialize for UserSettings: the fields in declaration order
SerUser(u) ==
    << LBrace,
       Key("user_id"), JNum(u.user_id),
       Key("city"), JOpt(u.city),
       Key("notification_time"), JOpt(u.notification_time),
       Key("cute_mode"), JBool(u.cute_mode),
       Key("state"), JOpt(u.state),
       RBrace >>

RECURSIVE SerUsers(_)
SerUsers(users) ==
    IF users = <<>> THEN <<>> ELSE SerUser(Head(users)) \o SerUsers(Tail(users))

\* serde_json::to_string_pretty(&[UserSettings])
to_string_pretty(users) == <<LBrack>> \o SerUsers(users) \o <<RBrack>>

ParseFail == [ok |-> FALSE, users |-> <<>>]

OptKeys == {"city", "notification_time", "state"}

\* serde's Deserialize for one UserSettings, from the token after '{':
\* a known key takes a value of its type and may come once, an unknown key
\* is skipped, user_id and cute_mode must be there, a missing Option is None
RECURSIVE ParseFields(_, _, _, _)
ParseFields(t, i, seen, u) ==
    IF i > Len(t) THEN [ok |-> FALSE, next |-> i, user |-> u]
    ELSE IF t[i].k = "}"
    THEN [ok |-> {"user_id", "cute_mode"} \subseteq seen, next |-> i + 1, user |-> u]
    ELSE IF t[i].k # "key" \/ i + 1 > Len(t) \/ t[i].name \in seen
    THEN [ok |-> FALSE, next |-> i, user |-> u]
    ELSE LET name == t[i].name
             val == t[i + 1] IN
         IF name = "user_id"
         THEN IF val.k = "num"
              THEN ParseFields(t, i + 2, seen \cup {name}, [u EXCEPT !.user_id = val.n])
              ELSE [ok |-> FALSE, next |-> i, user |-> u]
         ELSE IF name = "cute_mode"
         THEN IF val.k \in {"true", "false"}
              THEN ParseFields(t, i + 2, seen \cup {name},
                               [u EXCEPT !.cute_mode = (val.k = "true")])
              ELSE [ok |-> FALSE, next |-> i, user |-> u]
         ELSE IF name \in OptKeys
         THEN IF val.k \in {"str", "null"}
              THEN ParseFields(t, i + 2, seen \cup {name},
                               [u EXCEPT ![name] = IF val.k = "str" THEN Some(val.s) ELSE None])
              ELSE [ok |-> FALSE, next |-> i, user |-> u]
         ELSE IF val.k \in {"str", "null", "num", "true", "false"}
         THEN ParseFields(t, i + 2, seen, u)
         ELSE [ok |-> FALSE, next |-> i, user |-> u]

\* the elements of the array, from the token after '[' up to the closing ']',
\* which must be the last token
RECURSIVE ParseUsers(_, _, _)
ParseUsers(t, i, acc) ==
    IF i > Len(t) THEN ParseFail
    ELSE IF t[i].k = "]"
    THEN IF i = Len(t) THEN [ok |-> TRUE, users |-> acc] ELSE ParseFail
    ELSE IF t[i].k = "{"
    THEN LET r == ParseFields(t, i + 1, {}, DefaultUser(0)) IN
         IF r.ok THEN ParseUsers(t, r.next, Append(acc, r.user)) ELSE ParseFail
    ELSE ParseFail

\* serde_json::from_str::<Vec<UserSettings>>: whitespace is skipped
from_str(text) ==
    LET t == SelectSeq(text, LAMBDA x : x.k # "ws") IN
    IF t # <<>> /\ t[1].k = "[" THEN ParseUsers(t, 2, <<>>) ELSE ParseFail

\* content.is_empty(), without the trim
IsBlank_NoTrim(text) == text = <<>>

\* content.trim().is_empty()
IsBlank(text) == \A i \in 1..Len(text) : text[i].k = "ws"

\* A file: missing, text, or there with no readable text (a read error
\* other than NotFound)
NoFile == [kind |-> "missing", text |-> <<>>]
TextFile(text) == [kind |-> "text", text |-> text]
Unreadable == [kind |-> "unreadable", text |-> <<>>]

\* new without the fs::copy of a file that does not parse
new_NoCopy(f, bak, copy_ok) ==
    IF f.kind = "text" /\ ~IsBlank(f.text) /\ from_str(f.text).ok
    THEN [data |-> from_str(f.text).users, backup |-> bak, branch |-> "loaded"]
    ELSE [data |-> <<>>, backup |-> bak, branch |-> "reset"]

\* JsonStorage::new(path): the table it starts with, the '.backup' sibling
\* it leaves (copy_ok: whether fs::copy succeeds) and the branch it took
new(f, bak, copy_ok) ==
    IF f.kind = "missing" THEN [data |-> <<>>, backup |-> bak, branch |-> "missing"]
    ELSE IF f.kind = "unreadable" THEN [data |-> <<>>, backup |-> bak, branch |-> "read_error"]
    ELSE IF IsBlank(f.text) THEN [data |-> <<>>, backup |-> bak, branch |-> "empty"]
    ELSE LET r == from_str(f.text) IN
         IF r.ok THEN [data |-> r.users, backup |-> bak, branch |-> "loaded"]
         ELSE [data |-> <<>>,
               backup |-> IF copy_ok THEN f ELSE bak,
               branch |-> "corrupt"]

\* Position looking at the first record only
Position_FirstOnly(users, id, i) ==
    IF users # <<>> /\ users[1].user_id = id THEN 1 ELSE 0

\* data.iter().position(|u| u.user_id == id), 0 for None
RECURSIVE Position(_, _, _)
Position(users, id, i) ==
    IF i > Len(users) THEN 0
    ELSE IF users[i].user_id = id THEN i
    ELSE Position(users, id, i + 1)

\* JsonStorage::get_user: a clone of the first record with that id
get_user(users, id) ==
    LET pos == Position(users, id, 1) IN
    IF pos = 0 THEN [some |-> FALSE, v |-> DefaultUser(0)]
    ELSE [some |-> TRUE, v |-> users[pos]]

\* Upsert that leaves a record already in the table as it is
Upsert_KeepOld(users, user) ==
    LET pos == Position(users, user.user_id, 1) IN
    IF pos # 0 THEN users ELSE Append(users, user)

\* Upsert that always pushes
Upsert_Push(users, user) == Append(users, user)

\* Upsert that puts a record with a new id in the place of the last one
Upsert_Evicts(users, user) ==
    LET pos == Position(users, user.user_id, 1) IN
    IF pos # 0 THEN [users EXCEPT ![pos] = user]
    ELSE IF users = <<>> THEN <<user>>
    ELSE [users EXCEPT ![Len(users)] = user]

\* save_user's change of the table: replace at the position, else push
Upsert(users, user) ==
    LET pos == Position(users, user.user_id, 1) IN
    IF pos # 0 THEN [users EXCEPT ![pos] = user] ELSE Append(users, user)

\* save_to_file that appends to the file instead of replacing its content
save_to_file_Appends(f, users, outcome) ==
    LET json == to_string_pretty(users) IN
    IF outcome = "ok" THEN TextFile((IF f.kind = "text" THEN f.text ELSE <<>>) \o json)
    ELSE IF outcome = "create_failed" THEN f
    ELSE IF outcome = "truncated" THEN TextFile(<<>>)
    ELSE TextFile(SubSeq(json, 1, Len(json) - 1))

\* save_to_file whose write goes through although the file could not be opened
save_to_file_AlwaysOpens(f, users, outcome) ==
    LET json == to_string_pretty(users) IN
    IF outcome \in {"ok", "create_failed"} THEN TextFile(json)
    ELSE IF outcome = "truncated" THEN TextFile(<<>>)
    ELSE TextFile(SubSeq(json, 1, Len(json) - 1))

\* save_to_file: fs::write(path, json) creates or truncates the file and then
\* writes.  outcome "ok": all written; "create_failed": the file is as it was;
\* "truncated": nothing written after the truncation; "partial": the write
\* stopped short of the closing bracket.  Errors are logged and dropped.
save_to_file(f, users, outcome) ==
    LET json == to_string_pretty(users) IN
    IF outcome = "ok" THEN TextFile(json)
    ELSE IF outcome = "create_failed" THEN f
    ELSE IF outcome = "truncated" THEN TextFile(<<>>)
    ELSE TextFile(SubSeq(json, 1, Len(json) - 1))

WriteOutcomes == {"ok", "create_failed", "truncated", "partial"}

(***************************************************************************)
(* SpecStore: tasks calling get_user and save_user on one JsonStorage,     *)
(* the process restarting on the file it left                              *)
(***************************************************************************)
Omsk == <<"O", "m", "s", "k">>
T0800 == <<"0", "8", ":", "0", "0">>
WaitingForCity == <<"w", "a", "i", "t", "i", "n", "g", "_", "f", "o", "r", "_", "c", "i", "t", "y">>
WaitingForTime == <<"w", "a", "i", "t", "i", "n", "g", "_", "f", "o", "r", "_", "t", "i", "m", "e">>

HandlerTasks == {1, 2}

NoUser == [some |-> FALSE, v |-> DefaultUser(0)]
SomeUser(u) == [some |-> TRUE, v |-> u]

\* read is history: what the handler's last get_user returned
IdleHandler == [pc |-> "idle", kind |-> "none", id |-> 0, user |-> DefaultUser(0),
                say |-> "none", read |-> NoUser]
Silence == [id |-> 0, say |-> "none"]

\* the handlers' variables in a specification that has no handlers
HndUnused ==
    /\ hnd = [t \in HandlerTasks |-> IdleHandler]
    /\ said = Silence
    /\ ops = 0

Midnight == [hours |-> 0, minutes |-> 0]
LoopTop == [pc |-> "top", i |-> 1, mass |-> FALSE, ticks |-> 0]

NoWall == [seen |-> <<>>, back |-> FALSE, slow |-> FALSE]
NoTwin == [snapshot |-> <<>>, log |-> <<>>]

\* the scheduler's variables in a specification that has no scheduler
SchedUnused ==
    /\ clock = Midnight
    /\ snapshot = <<>>
    /\ now = Midnight
    /\ sched = LoopTop
    /\ log = <<>>
    /\ wall = NoWall
    /\ twin = NoTwin

Writers == {1, 2}
Readers == {3}
StoreTasks == Writers \cup Readers
StoreIds == {1, 2}

UserA == UserSettings(1, Some(Omsk), None, FALSE, None)
UserB == UserSettings(1, Some(Omsk), Some(T0800), TRUE, Some(WaitingForCity))
UserC == DefaultUser(2)

\* the records the tasks save
StoreRecs == {UserA, UserB, UserC}

IdleTask == [pc |-> "idle", user |-> DefaultUser(0), id |-> 0, got |-> NoUser]
NoSave == [valid |-> FALSE, user |-> DefaultUser(0), data |-> <<>>, file |-> NoFile,
           ok |-> FALSE, twice |-> FALSE]
NoBoot == [content |-> NoFile, copy_ok |-> TRUE, data |-> <<>>]

\* the process starts: JsonStorage::new on the file f as it is
Started(f, bak, copy_ok, d, b, w, tasks, bt, ls, lw, on) ==
    LET s == new(f, bak, copy_ok) IN
    /\ d = s.data
    /\ b = s.backup
    /\ w = 0
    /\ tasks = [t \in StoreTasks |-> IdleTask]
    /\ bt = [content |-> f, copy_ok |-> copy_ok, data |-> s.data]
    /\ ls = [id \in StoreIds |-> NoUser]
    /\ lw = "none"
    /\ on = NoSave

\* at a start the file holds what was loaded, and no save has failed
Durable(d, p, u) ==
    /\ p = d
    /\ u = [id \in StoreIds |-> NoUser]

\* files an earlier run left behind it
StoreInitFiles ==
    {NoFile, TextFile(to_string_pretty(<<UserA>>)), TextFile(to_string_pretty(<<UserC, UserB>>))}

InitStore ==
    /\ SchedUnused
    /\ time_in = <<>>
    /\ verdict = "pending"
    /\ HndUnused
    /\ file \in StoreInitFiles
    /\ Started(file, NoFile, TRUE, data, backup, writer, st, boot, lastSaved, lastWrite, once)
    /\ Durable(data, persisted, unsaved)

\* a lock that grants write() while a write guard is held
CanWrite_Always(w) == TRUE

\* RwLock: write() is granted when no guard is held, read() when no write
\* guard is held (a read guard lives within one step of the model)
CanWrite(w) == w = 0
CanRead(w) == w = 0

\* save_user, line 73: the write guard
SaveBegin(t, user) ==
    /\ st[t].pc \in {"idle", "read"}
    /\ CanWrite(writer)
    /\ writer' = t
    /\ st' = [st EXCEPT ![t] = [IdleTask EXCEPT !.pc = "locked", !.user = user]]
    /\ once' = [once EXCEPT !.twice = FALSE]
    /\ UNCHANGED <<data, file, backup, boot, lastSaved, lastWrite, persisted, unsaved,
                   vTime, vHnd, vSched>>

\* save_user, lines 74-78: replace or push
SaveApply(t) ==
    /\ st[t].pc = "locked"
    /\ data' = Upsert(data, st[t].user)
    /\ st' = [st EXCEPT ![t].pc = "applied"]
    /\ UNCHANGED <<file, backup, writer, vHist, vTime, vHnd, vSched>>

\* the history of a save_user that returns, having left table d and file f
Saved(user, d, f, outcome) ==
    /\ lastSaved' = [lastSaved EXCEPT ![user.user_id] = SomeUser(user)]
    /\ lastWrite' = outcome
    /\ once' = IF once.valid /\ once.user = user
               THEN [once EXCEPT !.twice = TRUE]
               ELSE [valid |-> TRUE, user |-> user, data |-> d, file |-> f,
                     ok |-> (outcome = "ok"), twice |-> FALSE]

\* save_user, line 81: save_to_file, then the guard is dropped on return
SavePersist(t, outcome) ==
    /\ st[t].pc = "applied"
    /\ file' = save_to_file(file, data, outcome)
    /\ writer' = IF writer = t THEN 0 ELSE writer
    /\ st' = [st EXCEPT ![t] = IdleTask]
    /\ Saved(st[t].user, data, file', outcome)
    /\ UNCHANGED <<data, backup, boot, persisted, unsaved, vTime, vHnd, vSched>>

\* get_user: read guard, find, clone; the task then holds this result only
GetUser(t, id) ==
    /\ st[t].pc \in {"idle", "read"}
    /\ CanRead(writer)
    /\ st' = [st EXCEPT ![t] = [IdleTask EXCEPT !.pc = "read", !.id = id,
                                                !.got = get_user(data, id)]]
    /\ snapshot' = <<>>
    /\ UNCHANGED <<vStore, vHist, vTime, vHnd, clock, now, sched, log, wall, twin>>

\* get_all_users: read guard, clone of the whole table
GetAllUsers(t) ==
    /\ st[t].pc \in {"idle", "read"}
    /\ CanRead(writer)
    /\ snapshot' = data
    /\ st' = [st EXCEPT ![t] = [IdleTask EXCEPT !.pc = "read"]]
    /\ UNCHANGED <<vStore, vHist, vTime, vHnd, clock, now, sched, log, wall, twin>>

NextStore ==
    \/ \E t \in Writers, user \in StoreRecs : SaveBegin(t, user)
    \/ \E t \in Writers : SaveApply(t)
    \/ \E t \in Writers, outcome \in WriteOutcomes : SavePersist(t, outcome)
    \/ \E t \in Readers, id \in StoreIds : GetUser(t, id)
    \/ \E t \in Readers : GetAllUsers(t)

SpecStore == InitStore /\ [][NextStore]_vars

\* what a store started on the file as it is now would hold for id
Reloaded(id) == get_user(new(file, backup, TRUE).data, id)

\* C3 (as stated): save_user(r) followed by get_user(r.user_id), with no
\* other save of that id in between, returns r, and so does a new store
\* loaded from the backing file after the save.
C3_RoundTripAlsoReloaded ==
    /\ [][\A t \in Readers, id \in StoreIds :
            GetUser(t, id) /\ lastSaved[id].some => st'[t].got = lastSaved[id]]_vars
    /\ [](\A id \in StoreIds :
            writer = 0 /\ lastSaved[id].some => Reloaded(id) = lastSaved[id])

\* C3 (amended): save_user(r) followed by get_user(r.user_id), with no other
\* save of that id in between, returns r; a new store loaded from the
\* backing file returns r too when the most recent file write succeeded.
C3_RoundTrip ==
    /\ [][\A t \in Readers, id \in StoreIds :
            GetUser(t, id) /\ lastSaved[id].some => st'[t].got = lastSaved[id]]_vars
    /\ [](\A id \in StoreIds :
            writer = 0 /\ lastSaved[id].some /\ lastWrite = "ok"
            => Reloaded(id) = lastSaved[id])

\* UserB was saved and written, then read back from the table and from the file
C3_Witness ==
    \E t \in Readers :
        /\ st[t].pc = "read" /\ st[t].got = SomeUser(UserB)
        /\ lastSaved[1] = SomeUser(UserB) /\ lastWrite = "ok" /\ writer = 0
        /\ Reloaded(1) = SomeUser(UserB)

Entries(users, id) == {i \in 1..Len(users) : users[i].user_id = id}

\* C4 (as stated): the same record saved twice in a row leaves the table and
\* the backing file as they were after the first save, with one entry for
\* that id.
C4_IdempotentTableAndFile ==
    once.twice =>
        /\ data = once.data
        /\ file = once.file
        /\ Cardinality(Entries(data, once.user.user_id)) = 1

\* C4 (amended): the same record saved twice in a row leaves the table as it
\* was after the first save, with one entry for that id, and the backing
\* file too when both file writes succeeded.
C4_Idempotent ==
    once.twice =>
        /\ data = once.data
        /\ Cardinality(Entries(data, once.user.user_id)) = 1
        /\ (once.ok /\ lastWrite = "ok" => file = once.file)

\* a record saved twice in a row, both writes done, beside another record
C4_Witness ==
    once.twice /\ once.ok /\ lastWrite = "ok" /\ Len(data) = 2 /\ file = once.file

\* C5: no two records of the table have the same user_id, after the load and
\* at every step of every interleaving of save_user calls.
C5_UniqueIds ==
    \A i, j \in 1..Len(data) : i # j => data[i].user_id # data[j].user_id

\* a save_user replaced the record of an id that sits second in the table
C5_Witness ==
    \E t \in Writers :
        /\ st[t].pc = "applied" /\ st[t].user = UserB
        /\ Len(data) = 2 /\ data[2] = UserB /\ lastSaved[1] = SomeUser(UserA)

\* a save_user is between taking the write guard and returning
Saving(t) == st[t].pc \in {"locked", "applied"}

\* the records that were loaded or handed whole to a save_user
WholeRecs == StoreRecs \cup {boot.data[i] : i \in 1..Len(boot.data)}

\* C16: under every interleaving of get_user, get_all_users and save_user:
\* a task inside save_user holds the write guard, so no two saves overlap;
\* the table changes only by one save_user replacing or pushing its whole
\* record, once per call, so the table is the saves applied one after
\* another in the order of their guards; and a read runs while no save is
\* in progress and returns records each equal to one loaded or saved whole
\* (get_all_users the table as it is).
C16_WritesTotallyOrdered ==
    /\ [](\A t \in Writers : Saving(t) => writer = t)
    /\ [][data' # data
          => \E t \in Writers : /\ writer = t /\ st[t].pc = "locked"
                                /\ st'[t].pc = "applied"
                                /\ data' = Upsert(data, st[t].user)]_vars
    /\ [][\A t \in Readers :
            (\E id \in StoreIds : GetUser(t, id)) \/ GetAllUsers(t)
            => /\ \A w \in Writers : ~Saving(w)
               /\ st'[t].got.some => st'[t].got.v \in WholeRecs
               /\ \A i \in 1..Len(snapshot') : snapshot'[i] \in WholeRecs
               /\ snapshot' \in {<<>>, data}]_vars

\* the reader holds a table of two records from get_all_users, a save of
\* subscriber 2 has returned, and another save is changing the table
C16_Witness ==
    /\ Len(snapshot) = 2
    /\ lastSaved[2].some
    /\ \E t \in Writers : st[t].pc = "applied" /\ data # snapshot

\* C18: when the file write of a save_user fails, save_user still returns
\* (the task is through and the guard is dropped), the table holds the saved
\* record, and a get_user after it returns that record.
C18_FailedWriteKeepsTable ==
    /\ [][\A t \in Writers, outcome \in WriteOutcomes \ {"ok"} :
            SavePersist(t, outcome)
            => /\ st'[t] = IdleTask /\ writer' = 0
               /\ get_user(data', st[t].user.user_id) = SomeUser(st[t].user)]_vars
    /\ [][\A t \in Readers, id \in StoreIds :
            GetUser(t, id) /\ lastSaved[id].some /\ lastWrite \notin {"ok", "none"}
            => st'[t].got = lastSaved[id]]_vars

\* the save_user of UserB that returned last could not write the file, the
\* file does not hold UserB, and a get_user has returned UserB
C18_Witness ==
    /\ once.valid /\ once.user = UserB /\ ~once.ok /\ ~once.twice
    /\ lastWrite \notin {"ok", "none"}
    /\ Reloaded(1) # SomeUser(UserB)
    /\ \E t \in Readers : st[t].pc = "read" /\ st[t].id = 1 /\ st[t].got = SomeUser(UserB)

\* C20: whenever no save_user is in progress and the most recent file
\* write succeeded, the file is the serialized table and loads as the table.
\* A file write is made by the one task inside save_user, of the table that
\* holds its own update, and between a save's table update and its file
\* write no other save changes the table: the file writes do not overlap
\* and follow the order of the table updates.
C20_FileHoldsTable ==
    /\ []((\A t \in Writers : ~Saving(t)) /\ lastWrite = "ok"
          => /\ file = TextFile(to_string_pretty(data))
             /\ new(file, backup, TRUE).data = data)
    /\ [][\A t \in Writers, outcome \in WriteOutcomes :
            SavePersist(t, outcome)
            => /\ writer = t
               /\ \A u \in Writers \ {t} : ~Saving(u)
               /\ get_user(data, st[t].user.user_id) = SomeUser(st[t].user)
               /\ file' = save_to_file(file, data, outcome)]_vars
    /\ [][\A t \in Writers :
            SaveApply(t) => /\ \A u \in Writers \ {t} : ~Saving(u)
                            /\ st'[t].pc = "applied" /\ writer' = t]_vars

\* a store started without a file: saves for both subscribers have
\* returned, no save is in progress, the last write went through
C20_Witness ==
    /\ boot.content = NoFile
    /\ lastSaved[1].some /\ lastSaved[2].some
    /\ \A t \in Writers : ~Saving(t)
    /\ lastWrite = "ok"
    /\ Len(data) = 2
    /\ file = TextFile(to_string_pretty(data))

(***************************************************************************)
(* SpecLoad: one task saving, the process ending and starting again on     *)
(* the file it finds                                                       *)
(***************************************************************************)
\* what the process can find at file_path when it first starts
LoadInitFiles ==
    {NoFile, Unreadable, TextFile(<<>>), TextFile(<<White>>),
     TextFile(<<LBrace, Key("user_id"), JNum(1), RBrace>>),
     TextFile(<<LBrack, LBrace, Key("user_id"), JNum(1), RBrace, RBrack>>),
     TextFile(to_string_pretty(<<UserA>>))}

InitLoad ==
    /\ SchedUnused
    /\ time_in = <<>>
    /\ verdict = "pending"
    /\ HndUnused
    /\ file \in LoadInitFiles
    /\ \E copy_ok \in BOOLEAN :
         Started(file, NoFile, copy_ok, data, backup, writer, st, boot, lastSaved, lastWrite, once)
    /\ Durable(data, persisted, unsaved)

\* save_user as a whole, which the write guard makes one step
Put(user, outcome) ==
    /\ data' = Upsert(data, user)
    /\ file' = save_to_file(file, data', outcome)
    /\ lastSaved' = [lastSaved EXCEPT ![user.user_id] = SomeUser(user)]
    /\ lastWrite' = outcome
    /\ persisted' = IF outcome = "ok" THEN data' ELSE persisted
    /\ unsaved' = [unsaved EXCEPT ![user.user_id] =
                      IF outcome = "ok" THEN NoUser ELSE SomeUser(user)]
    /\ UNCHANGED <<backup, writer, st, boot, once, vTime, vHnd, vSched>>

\* the process ends and starts again
Restart(copy_ok) ==
    /\ Started(file, backup, copy_ok, data', backup', writer', st', boot', lastSaved', lastWrite', once')
    /\ Durable(data', persisted', unsaved')
    /\ UNCHANGED <<file, vTime, vHnd, vSched>>

NextLoad ==
    \/ \E user \in StoreRecs, outcome \in WriteOutcomes : Put(user, outcome)
    \/ \E copy_ok \in BOOLEAN : Restart(copy_ok)

SpecLoad == InitLoad /\ [][NextLoad]_vars

\* readable text that is not blank and is no serialized record array
Corrupt(f) == f.kind = "text" /\ ~IsBlank(f.text) /\ ~from_str(f.text).ok

MissingOrBlank(f) ==
    f = NoFile \/ (f.kind = "text" /\ \A i \in 1..Len(f.text) : f.text[i] = White)

\* C29: loading when the backing file is missing or blank gives an empty
\* table, leaves the '.backup' sibling as it is (none at the first start)
\* and takes a branch of new that reports no error, at the first start and
\* at every restart.
C29_MissingOrBlankLoadsEmpty ==
    /\ (MissingOrBlank(boot.content) => data = <<>> /\ backup = NoFile)
    /\ [][\A copy_ok \in BOOLEAN :
            Restart(copy_ok) /\ MissingOrBlank(file)
            => /\ data' = <<>>
               /\ backup' = backup
               /\ new(file, backup, copy_ok).branch \in {"missing", "empty"}]_vars

\* the process started again on a file that a cut-short write had left
\* empty: the table is empty, and the backup an earlier start had made of a
\* corrupt file is the only one
C29_Witness ==
    /\ boot.content = TextFile(<<>>)
    /\ boot.data = <<>>
    /\ data = <<>>
    /\ backup # NoFile /\ Corrupt(backup)

\* C19 (as stated): when the file write of a save_user failed, the saved
\* record is absent from the table after a restart.
C19_FailedWriteLostOnRestart ==
    [][\A copy_ok \in BOOLEAN :
          Restart(copy_ok)
          => \A id \in StoreIds :
                unsaved[id].some => get_user(data', id) # unsaved[id]]_vars

\* C19 (amended): every write rewrites the whole table, so a restart loads
\* the table of the last write that succeeded, or an empty table when a
\* later write was cut short (the file is then blank or does not parse).
\* A record whose own write failed is absent after the restart unless that
\* last successful write, an earlier or a later one, held an equal record.
C19_RestartLoadsLastWrite ==
    [][\A copy_ok \in BOOLEAN :
          Restart(copy_ok)
          => /\ data' \in {persisted, <<>>}
             /\ lastWrite \in {"truncated", "partial"} => data' = <<>>
             /\ lastWrite = "ok" => data' = data
             /\ \A id \in StoreIds :
                   unsaved[id].some /\ get_user(persisted, id) # unsaved[id]
                   => get_user(data', id) # unsaved[id]]_vars

\* the write of save_user(UserB) stopped short, and the process started
\* again on what it left: the table is empty, the stump is in the backup
C19_Witness ==
    LET json == to_string_pretty(<<UserB>>) IN
    /\ boot.content = TextFile(SubSeq(json, 1, Len(json) - 1))
    /\ lastWrite = "none"
    /\ data = <<>>
    /\ backup = boot.content

\* the store's variables in a specification that has no store
StoreUnused ==
    /\ data = <<>>
    /\ file = NoFile
    /\ backup = NoFile
    /\ writer = 0
    /\ st = [t \in StoreTasks |-> IdleTask]
    /\ boot = NoBoot
    /\ lastSaved = [id \in StoreIds |-> NoUser]
    /\ lastWrite = "none"
    /\ once = NoSave
    /\ Durable(data, persisted, unsaved)
    /\ HndUnused
    /\ SchedUnused

(***************************************************************************)
(* main.rs: the handlers.  Each handler is an operator from what get_user  *)
(* returned and the update's text to what it does next: save a record and  *)
(* send a message (save, user, say), read again (again), or only answer.   *)
(***************************************************************************)
Manual == <<"m", "a", "n", "u", "a", "l">>
CuteCode == <<"<", "3", "c", "u", "t", "e", "<", "3">>
StdCode == <<"/", "s", "t", "d">>
CityPrefix == <<"c", "i", "t", "y", "_">>
TimePrefix == <<"t", "i", "m", "e", "_">>
T1200 == <<"1", "2", ":", "0", "0">>
T830 == <<"8", ":", "3", "0">>
T2400 == <<"2", "4", ":", "0", "0">>

Plan(save, user, say) == [save |-> save, user |-> user, say |-> say, again |-> "none"]
Answer(say) == Plan(FALSE, DefaultUser(0), say)
ReadAgain(kind) == [save |-> FALSE, user |-> DefaultUser(0), say |-> "none", again |-> kind]

\* a default record that is in cute mode
GetOrDefault_CuteDefault(found, id) ==
    IF found.some THEN found.v ELSE [DefaultUser(id) EXCEPT !.cute_mode = TRUE]

\* storage.get_user(user_id).await.unwrap_or_else(|| UserSettings { .. })
GetOrDefault(found, id) == IF found.some THEN found.v ELSE DefaultUser(id)

\* set_time that stores the argument without the format check
set_time_Unchecked(found, id, time_arg) ==
    IF Trim(time_arg) = <<>> THEN Answer("time_keyboard")
    ELSE IF Trim(time_arg) = Manual THEN Answer("time_hint")
    ELSE Plan(TRUE, [GetOrDefault(found, id) EXCEPT !.notification_time = Some(Trim(time_arg))],
              "time_set")

\* set_city that takes the command without an argument as a prompt for text
set_city_Awaits(found, id, city_arg) ==
    IF Trim(city_arg) = <<>>
    THEN Plan(TRUE, [GetOrDefault(found, id) EXCEPT !.state = Some(WaitingForCity)],
              "city_keyboard")
    ELSE IF Trim(city_arg) = Manual THEN Answer("city_hint")
    ELSE Plan(TRUE, [GetOrDefault(found, id) EXCEPT !.city = Some(Trim(city_arg))], "city_set")

\* main.rs set_city (/city)
set_city(found, id, city_arg) ==
    IF Trim(city_arg) = <<>> THEN Answer("city_keyboard")
    ELSE IF Trim(city_arg) = Manual THEN Answer("city_hint")
    ELSE Plan(TRUE, [GetOrDefault(found, id) EXCEPT !.city = Some(Trim(city_arg))], "city_set")

\* main.rs set_time (/time)
set_time(found, id, time_arg) ==
    IF Trim(time_arg) = <<>> THEN Answer("time_keyboard")
    ELSE IF Trim(time_arg) = Manual THEN Answer("time_hint")
    ELSE IF ~is_valid_time_format(Trim(time_arg)) THEN Answer("bad_time_arg")
    ELSE Plan(TRUE, [GetOrDefault(found, id) EXCEPT !.notification_time = Some(Trim(time_arg))],
              "time_set")

\* main.rs send_start_message (/start)
\* send_start_message that saves the record whatever its cute_mode was
send_start_message_AlwaysSaves(found, id) ==
    Plan(TRUE, [GetOrDefault(found, id) EXCEPT !.cute_mode = FALSE], "welcome")

send_start_message(found, id) ==
    LET user == GetOrDefault(found, id) IN
    IF user.cute_mode THEN Plan(TRUE, [user EXCEPT !.cute_mode = FALSE], "welcome")
    ELSE Answer("welcome")

\* handle_callback_query that writes the tag "waiting_city" for a city of
\* the user's own
handle_callback_query_OtherTag(found, id, cb) ==
    LET user == GetOrDefault(found, id) IN
    IF StartsWith(cb, CityPrefix)
    THEN IF cb = CityPrefix \o Manual
         THEN Plan(TRUE, [user EXCEPT !.state = Some(<<"w", "a", "i", "t", "i", "n", "g", "_",
                                                       "c", "i", "t", "y">>)], "ask_city")
         ELSE Plan(TRUE, [user EXCEPT !.city = Some(Remove(cb, CityPrefix)), !.state = None],
                   "city_set")
    ELSE IF StartsWith(cb, TimePrefix)
    THEN IF cb = TimePrefix \o Manual
         THEN Plan(TRUE, [user EXCEPT !.state = Some(WaitingForTime)], "ask_time")
         ELSE Plan(TRUE, [user EXCEPT !.notification_time = Some(Remove(cb, TimePrefix)),
                                      !.state = None], "time_set")
    ELSE Answer("none")

\* main.rs handle_callback_query, for a query that has a message and data
handle_callback_query(found, id, cb) ==
    LET user == GetOrDefault(found, id) IN
    IF StartsWith(cb, CityPrefix)
    THEN IF cb = CityPrefix \o Manual
         THEN Plan(TRUE, [user EXCEPT !.state = Some(WaitingForCity)], "ask_city")
         ELSE Plan(TRUE, [user EXCEPT !.city = Some(Remove(cb, CityPrefix)), !.state = None],
                   "city_set")
    ELSE IF StartsWith(cb, TimePrefix)
    THEN IF cb = TimePrefix \o Manual
         THEN Plan(TRUE, [user EXCEPT !.state = Some(WaitingForTime)], "ask_time")
         ELSE Plan(TRUE, [user EXCEPT !.notification_time = Some(Remove(cb, TimePrefix)),
                                      !.state = None], "time_set")
    ELSE Answer("none")

\* handle_message without the emptiness check of the city
handle_message_NoEmptyCheck(found, text) ==
    IF found.some /\ found.v.state = Some(WaitingForTime)
    THEN IF is_valid_time_format(Trim(text))
         THEN Plan(TRUE, [found.v EXCEPT !.notification_time = Some(Trim(text)),
                                         !.state = None], "time_set")
         ELSE Answer("bad_time")
    ELSE IF found.some /\ found.v.state = Some(WaitingForCity)
    THEN Plan(TRUE, [found.v EXCEPT !.city = Some(Trim(text)), !.state = None], "city_set")
    ELSE IF Trim(text) = CuteCode THEN ReadAgain("cute")
    ELSE IF Trim(text) = StdCode THEN ReadAgain("std")
    ELSE Answer("generic")

\* handle_message that looks for the mode codes before the pending state
handle_message_CodesFirst(found, text) ==
    IF Trim(text) = CuteCode THEN ReadAgain("cute")
    ELSE IF Trim(text) = StdCode THEN ReadAgain("std")
    ELSE IF found.some /\ found.v.state = Some(WaitingForTime)
    THEN IF is_valid_time_format(Trim(text))
         THEN Plan(TRUE, [found.v EXCEPT !.notification_time = Some(Trim(text)),
                                         !.state = None], "time_set")
         ELSE Answer("bad_time")
    ELSE IF found.some /\ found.v.state = Some(WaitingForCity)
    THEN IF Trim(text) # <<>>
         THEN Plan(TRUE, [found.v EXCEPT !.city = Some(Trim(text)), !.state = None], "city_set")
         ELSE Answer("empty_city")
    ELSE Answer("generic")

\* handle_message that stores the answer to the time prompt unvalidated
handle_message_NoTimeCheck(found, text) ==
    IF found.some /\ found.v.state = Some(WaitingForTime)
    THEN Plan(TRUE, [found.v EXCEPT !.notification_time = Some(Trim(text)),
                                    !.state = None], "time_set")
    ELSE IF found.some /\ found.v.state = Some(WaitingForCity)
    THEN IF Trim(text) # <<>>
         THEN Plan(TRUE, [found.v EXCEPT !.city = Some(Trim(text)), !.state = None], "city_set")
         ELSE Answer("empty_city")
    ELSE IF Trim(text) = CuteCode THEN ReadAgain("cute")
    ELSE IF Trim(text) = StdCode THEN ReadAgain("std")
    ELSE Answer("generic")

\* main.rs handle_message, lines 229-340: the pending-input flows, then the
\* mode codes, which read the record again
\* handle_message with the answered record built from the default instead
\* of from a clone of the record read
handle_message_FromDefault(found, text) ==
    IF found.some /\ found.v.state = Some(WaitingForTime)
    THEN IF is_valid_time_format(Trim(text))
         THEN Plan(TRUE, [DefaultUser(found.v.user_id)
                            EXCEPT !.notification_time = Some(Trim(text))], "time_set")
         ELSE Answer("bad_time")
    ELSE IF found.some /\ found.v.state = Some(WaitingForCity)
    THEN IF Trim(text) # <<>>
         THEN Plan(TRUE, [DefaultUser(found.v.user_id) EXCEPT !.city = Some(Trim(text))],
                   "city_set")
         ELSE Answer("empty_city")
    ELSE IF Trim(text) = CuteCode THEN ReadAgain("cute")
    ELSE IF Trim(text) = StdCode THEN ReadAgain("std")
    ELSE Answer("generic")

handle_message(found, text) ==
    IF found.some /\ found.v.state = Some(WaitingForTime)
    THEN IF is_valid_time_format(Trim(text))
         THEN Plan(TRUE, [found.v EXCEPT !.notification_time = Some(Trim(text)),
                                         !.state = None], "time_set")
         ELSE Answer("bad_time")
    ELSE IF found.some /\ found.v.state = Some(WaitingForCity)
    THEN IF Trim(text) # <<>>
         THEN Plan(TRUE, [found.v EXCEPT !.city = Some(Trim(text)), !.state = None], "city_set")
         ELSE Answer("empty_city")
    ELSE IF Trim(text) = CuteCode THEN ReadAgain("cute")
    ELSE IF Trim(text) = StdCode THEN ReadAgain("std")
    ELSE Answer("generic")

\* main.rs handle_message, lines 314-371: the mode codes after their get_user
handle_mode_code(found, id, kind) ==
    LET user == GetOrDefault(found, id) IN
    IF kind = "cute" THEN Plan(TRUE, [user EXCEPT !.cute_mode = TRUE], "cute_on")
    ELSE IF user.cute_mode THEN Plan(TRUE, [user EXCEPT !.cute_mode = FALSE], "std_on")
    ELSE Answer("generic")

(***************************************************************************)
(* Spec: the dispatcher's handler tasks on one store.  A handler's         *)
(* get_user and its save_user are separate steps; save_user is one step    *)
(* (it holds the write guard from the table's change to the file's write). *)
(***************************************************************************)
MaxOps == 2

HandlerIds == {1, 2}

\* get_time_keyboard: the callback data of its buttons
get_time_keyboard ==
    {TimePrefix \o <<h[1], h[2], ":", "0", "0">> :
        h \in {<<"0", "6">>, <<"0", "7">>, <<"0", "8">>, <<"0", "9">>, <<"1", "2">>,
               <<"1", "4">>, <<"1", "6">>, <<"1", "8">>, <<"2", "0">>, <<"2", "2">>}}
    \cup {TimePrefix \o Manual}

\* the buttons pressed in this specification (Omsk is one of the fifteen
\* cities of get_city_keyboard)
CityButtons == {CityPrefix \o Omsk, CityPrefix \o Manual}
TimeButtons == {TimePrefix \o T0800, TimePrefix \o T1200, TimePrefix \o Manual}

CityArgs == {<<>>, Manual, <<" ">> \o Omsk}
TimeArgs == {<<>>, Manual, T0800, T830, T2400}
Texts == {<<" ">>, <<" ">> \o Omsk \o <<" ">>, T0800 \o <<" ">>, T2400, CuteCode, StdCode}

\* the handlers' file writes go through
HandlerOutcomes == {"ok"}

\* tables an earlier run can have left in the file
HandlerInitFiles ==
    {NoFile,
     TextFile(to_string_pretty(<<UserSettings(1, None, None, FALSE, Some(WaitingForCity))>>)),
     TextFile(to_string_pretty(<<UserSettings(2, Some(Omsk), Some(T0800), TRUE, None),
                                 UserSettings(1, Some(Omsk), None, TRUE, Some(WaitingForTime))>>)),
     TextFile(to_string_pretty(<<UserSettings(1, None, Some(T1200), FALSE, Some(WaitingForCity)),
                                 DefaultUser(2)>>)),
     TextFile(to_string_pretty(<<UserSettings(2, Some(Omsk), Some(T830), FALSE, Some(WaitingForTime))>>))}

Init ==
    /\ time_in = <<>>
    /\ verdict = "pending"
    /\ file \in HandlerInitFiles
    /\ Started(file, NoFile, TRUE, data, backup, writer, st, boot, lastSaved, lastWrite, once)
    /\ Durable(data, persisted, unsaved)
    /\ hnd = [t \in HandlerTasks |-> IdleHandler]
    /\ said = Silence
    /\ ops = 0
    /\ SchedUnused

\* what the task does with its handler's plan
Follow(t, id, plan) ==
    /\ hnd' = [hnd EXCEPT ![t] =
                 IF plan.again # "none"
                 THEN [IdleHandler EXCEPT !.pc = "reread", !.kind = plan.again, !.id = id]
                 ELSE IF plan.save
                 THEN [IdleHandler EXCEPT !.pc = "save", !.id = id, !.user = plan.user,
                                          !.say = plan.say, !.read = get_user(data, id)]
                 ELSE IdleHandler]
    /\ said' = IF plan.again = "none" /\ ~plan.save THEN [id |-> id, say |-> plan.say] ELSE said
    /\ UNCHANGED <<vStore, st, vHist, vTime, vSched>>

\* a dispatcher that hands an update to a task while another task is still
\* handling an update of the same chat
Dispatch_AnyChat(t, id) ==
    /\ hnd[t].pc = "idle"
    /\ \A u \in HandlerTasks : u < t => hnd[u].pc # "idle"
    /\ ops < MaxOps
    /\ ops' = ops + 1

\* main.rs lines 155-160: the Dispatcher is built with its default
\* distribution function, which queues the updates of one chat to one worker
\* that handles them one after another, and runs different chats' workers
\* side by side; user_id is the chat's id in every handler.  So an update of
\* chat id goes to an idle task (the tasks are alike, so it is the first one)
\* once no task is handling an update of that chat.
Dispatch(t, id) ==
    /\ hnd[t].pc = "idle"
    /\ \A u \in HandlerTasks : u < t => hnd[u].pc # "idle"
    /\ \A u \in HandlerTasks : hnd[u].pc # "idle" => hnd[u].id # id
    /\ ops < MaxOps
    /\ ops' = ops + 1

\* handle_commands, Command::City
CmdCity(t, id, arg) ==
    /\ Dispatch(t, id)
    /\ Follow(t, id, set_city(get_user(data, id), id, arg))

\* handle_commands, Command::Time
CmdTime(t, id, arg) ==
    /\ Dispatch(t, id)
    /\ Follow(t, id, set_time(get_user(data, id), id, arg))

\* handle_commands, Command::Start
CmdStart(t, id) ==
    /\ Dispatch(t, id)
    /\ Follow(t, id, send_start_message(get_user(data, id), id))

\* handle_callback_query
Callback(t, id, cb) ==
    /\ Dispatch(t, id)
    /\ Follow(t, id, handle_callback_query(get_user(data, id), id, cb))

\* handle_message, up to its first await after get_user
Message(t, id, text) ==
    /\ Dispatch(t, id)
    /\ Follow(t, id, handle_message(get_user(data, id), text))

\* handle_message, the get_user of a mode code
ModeCode(t) ==
    /\ hnd[t].pc = "reread"
    /\ Follow(t, hnd[t].id, handle_mode_code(get_user(data, hnd[t].id), hnd[t].id, hnd[t].kind))
    /\ UNCHANGED ops

\* the handler's save_user, and the message it sends after it
Save(t, outcome) ==
    /\ hnd[t].pc = "save"
    /\ data' = Upsert(data, hnd[t].user)
    /\ file' = save_to_file(file, data', outcome)
    /\ hnd' = [hnd EXCEPT ![t] = IdleHandler]
    /\ said' = [id |-> hnd[t].id, say |-> hnd[t].say]
    /\ UNCHANGED <<backup, writer, st, vHist, vTime, vSched, ops>>

Next ==
    \/ \E t \in HandlerTasks, id \in HandlerIds, arg \in CityArgs : CmdCity(t, id, arg)
    \/ \E t \in HandlerTasks, id \in HandlerIds, arg \in TimeArgs : CmdTime(t, id, arg)
    \/ \E t \in HandlerTasks, id \in HandlerIds : CmdStart(t, id)
    \/ \E t \in HandlerTasks, id \in HandlerIds, cb \in CityButtons \cup TimeButtons :
          Callback(t, id, cb)
    \/ \E t \in HandlerTasks, id \in HandlerIds, text \in Texts : Message(t, id, text)
    \/ \E t \in HandlerTasks : ModeCode(t)
    \/ \E t \in HandlerTasks, outcome \in HandlerOutcomes : Save(t, outcome)

Spec == Init /\ [][Next]_vars

\* C2: every notification_time in the table passes is_valid_time_format,
\* whichever path wrote it: /time with an argument, a text answered while
\* waiting_for_time, or a button of the time keyboard (none of whose
\* buttons would store a time that fails it).
C2_StoredTimesValid ==
    /\ \A i \in 1..Len(data) :
          data[i].notification_time.some
          => is_valid_time_format(data[i].notification_time.v)
    /\ TimeButtons \subseteq get_time_keyboard
    /\ \A id \in HandlerIds, cb \in get_time_keyboard :
          LET plan == handle_callback_query(get_user(data, id), id, cb) IN
          plan.user.notification_time.some
          => is_valid_time_format(plan.user.notification_time.v)

\* a text answered while waiting_for_time and a button of the time keyboard
\* have each written a time
C2_Witness ==
    /\ get_user(data, 1).some /\ get_user(data, 2).some
    /\ get_user(data, 1).v.notification_time = Some(T0800)
    /\ get_user(data, 1).v.state = None
    /\ get_user(data, 2).v.notification_time = Some(T1200)
    /\ said.say = "time_set"

\* C10: a text from a subscriber whose state is waiting_for_city: when it is
\* empty after trimming, the handler saves nothing (state and city stay as
\* they are); otherwise it saves the record with city set to the trimmed
\* text and state None, and the table then holds that record.
C10_AwaitingLocation ==
    /\ [][\A t \in HandlerTasks, id \in HandlerIds, text \in Texts :
            Message(t, id, text) /\ get_user(data, id).some
            /\ get_user(data, id).v.state = Some(WaitingForCity)
            => IF Trim(text) = <<>>
               THEN hnd'[t].pc = "idle" /\ data' = data
               ELSE /\ hnd'[t].pc = "save"
                    /\ hnd'[t].user.user_id = id
                    /\ hnd'[t].user.city = Some(Trim(text))
                    /\ hnd'[t].user.state = None]_vars
    /\ [][\A t \in HandlerTasks, outcome \in HandlerOutcomes :
            Save(t, outcome)
            => get_user(data', hnd[t].user.user_id) = SomeUser(hnd[t].user)]_vars

\* subscriber 1, waiting_for_city, was asked again after an empty text and
\* then answered " Omsk ": the record about to be saved has city Omsk
C10_Witness ==
    /\ said = [id |-> 1, say |-> "empty_city"]
    /\ get_user(data, 1).some /\ get_user(data, 1).v.state = Some(WaitingForCity)
    /\ \E t \in HandlerTasks :
          /\ hnd[t].pc = "save" /\ hnd[t].id = 1 /\ hnd[t].say = "city_set"
          /\ hnd[t].user.city = Some(Omsk) /\ hnd[t].user.state = None

\* C11: a text from a subscriber whose state is waiting_for_time: when the
\* trimmed text passes is_valid_time_format, the handler saves the record
\* with notification_time set to it and state None, and the table then holds
\* that record; when it fails, the handler saves nothing, so notification_time
\* and the state waiting_for_time stay as they are.
C11_AwaitingTime ==
    /\ [][\A t \in HandlerTasks, id \in HandlerIds, text \in Texts :
            Message(t, id, text) /\ get_user(data, id).some
            /\ get_user(data, id).v.state = Some(WaitingForTime)
            => IF is_valid_time_format(Trim(text))
               THEN /\ hnd'[t].pc = "save"
                    /\ hnd'[t].user.user_id = id
                    /\ hnd'[t].user.notification_time = Some(Trim(text))
                    /\ hnd'[t].user.state = None
               ELSE /\ hnd'[t].pc = "idle"
                    /\ get_user(data', id) = get_user(data, id)
                    /\ said' = [id |-> id, say |-> "bad_time"]]_vars
    /\ [][\A t \in HandlerTasks, outcome \in HandlerOutcomes :
            Save(t, outcome) /\ hnd[t].say = "time_set"
            => /\ get_user(data', hnd[t].id).some
               /\ get_user(data', hnd[t].id).v.notification_time
                      = hnd[t].user.notification_time
               /\ get_user(data', hnd[t].id).v.state = hnd[t].user.state]_vars

\* subscriber 1, waiting_for_time, was told "24:00" is no time and then
\* answered "08:00 ": the record about to be saved has notification_time 08:00
C11_Witness ==
    /\ said = [id |-> 1, say |-> "bad_time"]
    /\ get_user(data, 1).some /\ get_user(data, 1).v.state = Some(WaitingForTime)
    /\ \E t \in HandlerTasks :
          /\ hnd[t].pc = "save" /\ hnd[t].id = 1 /\ hnd[t].say = "time_set"
          /\ hnd[t].user.notification_time = Some(T0800) /\ hnd[t].user.state = None

\* the state of subscriber id once the handler of task t is through: the one
\* it is about to save, else the one in the table (None when no record)
PendingAfter(t, id) ==
    IF hnd[t].pc = "save" /\ hnd[t].id = id THEN hnd[t].user.state
    ELSE IF get_user(data, id).some THEN get_user(data, id).v.state
    ELSE None

Idle(id) == get_user(data, id).some => get_user(data, id).v.state = None

\* C12 as stated: /city without an argument from a subscriber with no pending
\* state makes their state waiting_for_city, and /time without an argument
\* makes it waiting_for_time.
C12_NoArgumentAwaits ==
    [][\A t \in HandlerTasks, id \in HandlerIds :
          /\ CmdCity(t, id, <<>>) /\ Idle(id)
             => PendingAfter(t, id)' = Some(WaitingForCity)
          /\ CmdTime(t, id, <<>>) /\ Idle(id)
             => PendingAfter(t, id)' = Some(WaitingForTime)]_vars

\* C12: /city and /time without an argument only show their keyboard: they
\* save nothing and the subscriber's state stays as it was.  The state
\* becomes waiting_for_city (waiting_for_time) when the keyboard's manual
\* button, city_manual (time_manual), is pressed: that handler saves the
\* record with the state set and every other field as it was.
C12_NoArgumentShowsKeyboard ==
    /\ [][\A t \in HandlerTasks, id \in HandlerIds :
            /\ CmdCity(t, id, <<>>)
               => /\ hnd'[t].pc = "idle" /\ data' = data
                  /\ said' = [id |-> id, say |-> "city_keyboard"]
            /\ CmdTime(t, id, <<>>)
               => /\ hnd'[t].pc = "idle" /\ data' = data
                  /\ said' = [id |-> id, say |-> "time_keyboard"]]_vars
    /\ [][\A t \in HandlerTasks, id \in HandlerIds :
            /\ Callback(t, id, CityPrefix \o Manual)
               => /\ hnd'[t].pc = "save"
                  /\ hnd'[t].user = [GetOrDefault(get_user(data, id), id)
                                        EXCEPT !.state = Some(WaitingForCity)]
            /\ Callback(t, id, TimePrefix \o Manual)
               => /\ hnd'[t].pc = "save"
                  /\ hnd'[t].user = [GetOrDefault(get_user(data, id), id)
                                        EXCEPT !.state = Some(WaitingForTime)]]_vars

\* subscriber 2, with no pending state, was shown the city keyboard and then
\* pressed its manual button: the record about to be saved is waiting_for_city
C12_Witness ==
    /\ said = [id |-> 2, say |-> "city_keyboard"]
    /\ get_user(data, 2).some /\ get_user(data, 2).v.state = None
    /\ \E t \in HandlerTasks :
          /\ hnd[t].pc = "save" /\ hnd[t].id = 2
          /\ hnd[t].user.state = Some(WaitingForCity)

\* C13: /city or /time with an argument that is accepted saves the record
\* with the value written and with no pending state, whatever the state was
\* before the command.
C13_InlineArgumentCollapsesToIdle ==
    [][\A t \in HandlerTasks, id \in HandlerIds :
          /\ \A arg \in CityArgs :
                CmdCity(t, id, arg) /\ hnd'[t].pc = "save"
                => /\ hnd'[t].user.city = Some(Trim(arg))
                   /\ hnd'[t].user.state = None
          /\ \A arg \in TimeArgs :
                CmdTime(t, id, arg) /\ hnd'[t].pc = "save"
                => /\ hnd'[t].user.notification_time = Some(Trim(arg))
                   /\ hnd'[t].user.state = None]_vars

Awaiting(found) ==
    found.some /\ found.v.state \in {Some(WaitingForCity), Some(WaitingForTime)}

\* C28: a text message of a subscriber whose state is waiting_for_city or
\* waiting_for_time is handled by the pending-input flow only, the mode
\* codes included: it is answered with that flow's rejection or it saves
\* that flow's record, with cute_mode as it was; it does not go on to the
\* mode codes or to the generic text handling, and the save leaves the
\* table's cute_mode for the subscriber as it was.
C28_PendingInputTakesText ==
    /\ [][\A t \in HandlerTasks, id \in HandlerIds, text \in Texts :
            Message(t, id, text) /\ Awaiting(get_user(data, id))
            => /\ hnd'[t].pc \in {"idle", "save"}
               /\ hnd'[t].pc = "idle"
                  => said' \in {[id |-> id, say |-> "bad_time"],
                                [id |-> id, say |-> "empty_city"]}
               /\ hnd'[t].pc = "save"
                  => /\ hnd'[t].say \in {"time_set", "city_set"}
                     /\ hnd'[t].user.cute_mode = get_user(data, id).v.cute_mode]_vars
    /\ [][\A t \in HandlerTasks, outcome \in HandlerOutcomes :
            Save(t, outcome) /\ Awaiting(hnd[t].read)
                             /\ hnd[t].user.state = None
            => get_user(data', hnd[t].id).v.cute_mode = hnd[t].read.v.cute_mode]_vars

\* a subscriber asked for their city sent the code of the cute mode: the
\* code is about to be saved as the city, cute_mode as it was
C28_Witness ==
    \E t \in HandlerTasks :
        /\ hnd[t].pc = "save"
        /\ hnd[t].read.some
        /\ hnd[t].read.v.state = Some(WaitingForCity)
        /\ hnd[t].user.city = Some(CuteCode)
        /\ hnd[t].user.cute_mode = hnd[t].read.v.cute_mode

\* the fields a handler gives a value of its own before the save_user that
\* its message follows (the buttons of a city and of a time also assign
\* state = None, the default's value)
AssignedBefore(say) ==
    IF say = "city_set" THEN {"city"}
    ELSE IF say = "time_set" THEN {"notification_time"}
    ELSE IF say \in {"ask_city", "ask_time"} THEN {"state"}
    ELSE IF say \in {"cute_on", "std_on", "welcome"} THEN {"cute_mode"}
    ELSE {}

\* C33: when a handler's save_user is for a user_id that is not in the
\* table, the record it adds has that user_id and the default value (no
\* city, no notification_time, cute_mode false, no state) in every field
\* that the handler did not assign.
C33_CreatedRecordIsDefault ==
    [][\A t \in HandlerTasks, outcome \in HandlerOutcomes :
          Save(t, outcome) /\ ~get_user(data, hnd[t].id).some
          => /\ get_user(data', hnd[t].id).some
             /\ get_user(data', hnd[t].id).v.user_id = hnd[t].id
             /\ \A f \in {"city", "notification_time", "cute_mode", "state"}
                       \ AssignedBefore(hnd[t].say) :
                   get_user(data', hnd[t].id).v[f] = DefaultUser(hnd[t].id)[f]]_vars

\* a store started without a file: subscriber 1 pressed the button for a
\* time of their own, and the record made for them holds the pending state
\* and nothing else
C33_Witness ==
    /\ boot.content = NoFile
    /\ data = <<UserSettings(1, None, None, FALSE, Some(WaitingForTime))>>
    /\ said = [id |-> 1, say |-> "ask_time"]

\* C36: from a table whose states are valid, after any sequence of handler
\* operations the state of every record is None, "waiting_for_city" or
\* "waiting_for_time".
C36_StateTagsValid ==
    \A i \in 1..Len(data) :
        data[i].state \in {None, Some(WaitingForCity), Some(WaitingForTime)}

\* a store started without a file holds a record that a handler left
\* waiting for a city, after two updates
C36_Witness ==
    /\ boot.content = NoFile
    /\ ops >= 2
    /\ \E i \in 1..Len(data) : data[i].state = Some(WaitingForCity)

\* C38: completing a pending input changes the answered field and the state
\* of that subscriber and nothing else.  A non-empty text of a subscriber
\* asked for a city is saved as a record with the city and state None,
\* notification_time and cute_mode as read; a valid time of a subscriber
\* asked for a time is saved as a record with the time and state None, city
\* and cute_mode as read; the save_user of either puts exactly that record
\* in the table, over the record that was read, and leaves the record of
\* every other user_id as it was.
C38_AnswerChangesOneField ==
    /\ [][\A t \in HandlerTasks, id \in HandlerIds, text \in Texts :
            LET found == get_user(data, id) IN
            /\ Message(t, id, text) /\ found.some
                   /\ found.v.state = Some(WaitingForCity) /\ Trim(text) # <<>>
               => /\ hnd'[t].pc = "save"
                  /\ hnd'[t].user = [found.v EXCEPT !.city = Some(Trim(text)),
                                                    !.state = None]
            /\ Message(t, id, text) /\ found.some
                   /\ found.v.state = Some(WaitingForTime)
                   /\ is_valid_time_format(Trim(text))
               => /\ hnd'[t].pc = "save"
                  /\ hnd'[t].user = [found.v EXCEPT !.notification_time = Some(Trim(text)),
                                                    !.state = None]]_vars
    /\ [][\A t \in HandlerTasks, outcome \in HandlerOutcomes :
            Save(t, outcome) /\ Awaiting(hnd[t].read) /\ hnd[t].user.state = None
            => /\ get_user(data, hnd[t].id) = hnd[t].read
               /\ get_user(data', hnd[t].id) = [some |-> TRUE, v |-> hnd[t].user]
               /\ Len(data') = Len(data)
               /\ \A id \in HandlerIds \ {hnd[t].id} :
                     get_user(data', id) = get_user(data, id)]_vars

\* subscriber 1, asked for a city with 12:00 as their time, has answered
\* Omsk: their record holds the city, no state, and 12:00 as before, and the
\* record of subscriber 2 is the one the start loaded
C38_Witness ==
    /\ said = [id |-> 1, say |-> "city_set"]
    /\ get_user(boot.data, 1) =
          [some |-> TRUE, v |-> UserSettings(1, None, Some(T1200), FALSE, Some(WaitingForCity))]
    /\ get_user(data, 1) =
          [some |-> TRUE, v |-> UserSettings(1, Some(Omsk), Some(T1200), FALSE, None)]
    /\ get_user(data, 2) = [some |-> TRUE, v |-> DefaultUser(2)]
    /\ ops = 1

\* C39: after /start the subscriber's cute_mode is false and the rest of
\* their record is as it was, and a subscriber without a record still has
\* none.  The command saves only for a record whose cute_mode was true, and
\* what it saves is the record read with cute_mode false; for a record
\* whose cute_mode was false already and for no record it ends at the
\* welcome with the table as it was.
C39_StartResetsModeOnly ==
    /\ [][\A t \in HandlerTasks, id \in HandlerIds :
            LET found == get_user(data, id) IN
            CmdStart(t, id)
            => /\ data' = data
               /\ IF found.some /\ found.v.cute_mode
                  THEN /\ hnd'[t].pc = "save"
                       /\ hnd'[t].say = "welcome"
                       /\ hnd'[t].user = [found.v EXCEPT !.cute_mode = FALSE]
                  ELSE /\ hnd'[t].pc = "idle"
                       /\ said' = [id |-> id, say |-> "welcome"]]_vars
    /\ [][\A t \in HandlerTasks, outcome \in HandlerOutcomes :
            Save(t, outcome) /\ hnd[t].say = "welcome"
            => /\ hnd[t].read.some
               /\ get_user(data, hnd[t].id) = hnd[t].read
               /\ get_user(data', hnd[t].id) =
                     [some |-> TRUE, v |-> [hnd[t].read.v EXCEPT !.cute_mode = FALSE]]
               /\ Len(data') = Len(data)]_vars

\* subscriber 1, in the cute mode and asked for a time, sent /start: their
\* record is in the standard mode, with Omsk and the pending state as before
C39_Witness ==
    /\ said = [id |-> 1, say |-> "welcome"]
    /\ get_user(boot.data, 1) =
          [some |-> TRUE, v |-> UserSettings(1, Some(Omsk), None, TRUE, Some(WaitingForTime))]
    /\ get_user(data, 1) =
          [some |-> TRUE, v |-> UserSettings(1, Some(Omsk), None, FALSE, Some(WaitingForTime))]
    /\ ops = 1

\* C37: a /time command whose argument fails is_valid_time_format leaves
\* the table and the backing file as they are: the handler ends at its
\* answer with no save_user to come, so no record is made and none changes.
C37_InvalidTimeLeavesStore ==
    [][\A t \in HandlerTasks, id \in HandlerIds, arg \in TimeArgs :
          CmdTime(t, id, arg) /\ ~is_valid_time_format(Trim(arg))
          => /\ hnd'[t].pc = "idle"
             /\ said'.id = id
             /\ said'.say \in {"bad_time_arg", "time_keyboard", "time_hint"}
             /\ data' = data
             /\ file' = file]_vars

\* /time 24:00 has been answered with the format error, the table and the
\* file as the start left them
C37_Witness ==
    /\ said.say = "bad_time_arg"
    /\ \A t \in HandlerTasks : hnd[t].pc = "idle"
    /\ data = boot.data
    /\ file = boot.content
    /\ data # <<>>

(***************************************************************************)
(* SpecSched: scheduler.rs, the loop of start_scheduler on a table the     *)
(* handlers left.  get_weather answers Ok or Err, panics (format_weather   *)
(* indexes weather[0] and unwraps timestamps of the provider's reply), or  *)
(* never returns (the reqwest client has no timeout).                      *)
(***************************************************************************)
MaxTicks == 2

T0900 == <<"0", "9", ":", "0", "0">>
T1800 == <<"1", "8", ":", "0", "0">>

DigitChar == <<"0", "1", "2", "3", "4", "5", "6", "7", "8", "9">>

\* chrono's %H and %M: two digits, zero padded
TwoDigits(n) == <<DigitChar[(n \div 10) + 1], DigitChar[(n % 10) + 1]>>

\* now.format("%H:%M").to_string()
now_time == TwoDigits(now.hours) \o <<":">> \o TwoDigits(now.minutes)

\* line 50
is_mass_notification_time(t) ==
    (t.hours = 12 \/ t.hours = 18) /\ t.minutes = 0

SchedClocks ==
    {[hours |-> 8, minutes |-> 0], [hours |-> 8, minutes |-> 30],
     [hours |-> 9, minutes |-> 0], [hours |-> 12, minutes |-> 0],
     [hours |-> 12, minutes |-> 1], [hours |-> 0, minutes |-> 12],
     [hours |-> 18, minutes |-> 0]}

SchedTables ==
    {<<>>,
     <<UserSettings(1, Some(Omsk), Some(T0800), FALSE, None),
       UserSettings(2, Some(Omsk), Some(T0800), TRUE, None),
       UserSettings(3, Some(Omsk), Some(T0900), FALSE, None)>>,
     <<UserSettings(1, Some(Omsk), Some(T0800), TRUE, None),
       UserSettings(2, Some(Omsk), Some(T0800), FALSE, Some(WaitingForTime)),
       UserSettings(3, Some(Omsk), Some(T0800), FALSE, None)>>,
     <<UserSettings(1, None, Some(T1200), FALSE, None),
       UserSettings(2, Some(Omsk), None, FALSE, None),
       UserSettings(3, Some(Omsk), Some(T1200), TRUE, None)>>,
     <<UserSettings(1, Some(Omsk), Some(T830), FALSE, None),
       UserSettings(2, None, Some(T0800), FALSE, Some(WaitingForCity)),
       UserSettings(3, Some(Omsk), Some(T1800), FALSE, None)>>}

FetchOutcomes == {"ok", "err", "panic", "hang"}
SendOutcomes == {"ok", "err"}

Event(path, id, what, result) ==
    [path |-> path, id |-> id, what |-> what, result |-> result]

InitSched ==
    /\ time_in = <<>>
    /\ verdict = "pending"
    /\ data \in SchedTables
    /\ file = TextFile(to_string_pretty(data))
    /\ backup = NoFile
    /\ writer = 0
    /\ st = [t \in StoreTasks |-> IdleTask]
    /\ boot = NoBoot
    /\ lastSaved = [id \in StoreIds |-> NoUser]
    /\ lastWrite = "none"
    /\ once = NoSave
    /\ Durable(data, persisted, unsaved)
    /\ HndUnused
    /\ clock \in SchedClocks
    /\ snapshot = <<>>
    /\ now = Midnight
    /\ sched = LoopTop
    /\ log = <<>>
    /\ wall = NoWall
    /\ twin = NoTwin

\* a scheduler that saves the snapshot it holds back into the store
SchedFrame_WritesBack ==
    /\ data' = snapshot
    /\ file' = save_to_file(file, snapshot, "ok")
    /\ UNCHANGED <<vTime, backup, writer, st, vHist, vHnd>>

\* the scheduler calls get_all_users and nothing else of the store
SchedFrame == UNCHANGED <<vTime, vStore, st, vHist, vHnd>>

\* lines 31-52 and 75: the top of the loop up to the choice of the path
Tick ==
    /\ sched.pc = "top"
    /\ now' = clock
    /\ snapshot' = data
    /\ log' = <<>>
    /\ sched' = [sched EXCEPT !.pc = IF is_mass_notification_time(clock)
                                     THEN "mass" ELSE "personal",
                              !.i = 1,
                              !.mass = is_mass_notification_time(clock),
                              !.ticks = sched.ticks + 1]
    /\ UNCHANGED clock
    /\ SchedFrame

\* a get_weather call that is made a second time when it returned Err
After_Retry(path, id, fetch, message, send) ==
    /\ log' = log \o (IF fetch = "err" THEN <<Event(path, id, "get_weather", fetch)>> ELSE <<>>)
                   \o <<Event(path, id, "get_weather", fetch)>>
                   \o (IF message = "none" THEN <<>>
                       ELSE <<Event(path, id, message, send)>>)
    /\ sched' = [sched EXCEPT !.pc = IF fetch = "panic" THEN "dead"
                                     ELSE IF fetch = "hang" THEN "hung"
                                     ELSE sched.pc,
                              !.i = sched.i + 1]

\* what one get_weather call and the send_message after it leave in the log,
\* and where the loop is then
After(path, id, fetch, message, send) ==
    /\ log' = log \o <<Event(path, id, "get_weather", fetch)>>
                   \o (IF message = "none" THEN <<>>
                       ELSE <<Event(path, id, message, send)>>)
    /\ sched' = [sched EXCEPT !.pc = IF fetch = "panic" THEN "dead"
                                     ELSE IF fetch = "hang" THEN "hung"
                                     ELSE sched.pc,
                              !.i = sched.i + 1]

\* lines 76-77: the user's notification_time is the tick's time
Due(user) == user.notification_time = Some(now_time)

\* a path that delivers to the users in standard mode only
Eligible_StandardOnly(path, user) ==
    /\ ~user.cute_mode
    /\ IF path = "mass" THEN user.city.some ELSE Due(user) /\ user.city.some

\* the subscriber is one the path delivers to in this tick: lines 209 and
\* 76-78
Eligible(path, user) ==
    IF path = "mass" THEN user.city.some ELSE Due(user) /\ user.city.some

\* a broadcast that sends the error notice, as the personal path does
MassNotify_Notice(fetch, send) ==
    /\ sched.pc = "mass"
    /\ sched.i <= Len(snapshot)
    /\ LET user == snapshot[sched.i] IN
       IF user.city.some
       THEN After("mass", user.user_id, fetch,
                  IF fetch = "ok" THEN "forecast"
                  ELSE IF fetch = "err" THEN "notice" ELSE "none", send)
       ELSE /\ sched' = [sched EXCEPT !.i = sched.i + 1]
            /\ UNCHANGED log
    /\ UNCHANGED <<clock, snapshot, now>>
    /\ SchedFrame

\* send_mass_notifications, one turn of its loop
MassNotify(fetch, send) ==
    /\ sched.pc = "mass"
    /\ sched.i <= Len(snapshot)
    /\ LET user == snapshot[sched.i] IN
       IF Eligible("mass", user)
       THEN After("mass", user.user_id, fetch,
                  IF fetch = "ok" THEN "forecast" ELSE "none", send)
       ELSE /\ sched' = [sched EXCEPT !.i = sched.i + 1]
            /\ UNCHANGED log
    /\ UNCHANGED <<clock, snapshot, now>>
    /\ SchedFrame

\* send_mass_notifications returns
MassDone ==
    /\ sched.pc = "mass"
    /\ sched.i > Len(snapshot)
    /\ sched' = [sched EXCEPT !.pc = "personal", !.i = 1]
    /\ UNCHANGED <<clock, snapshot, now, log>>
    /\ SchedFrame

\* a personal path that reads each user's record again from the table
Personal_ReadsTable(fetch, send) ==
    /\ sched.pc = "personal"
    /\ sched.i <= Len(snapshot)
    /\ LET user == get_user(data, snapshot[sched.i].user_id).v IN
       IF Eligible("personal", user)
       THEN After("personal", user.user_id, fetch,
                  IF fetch = "ok" THEN "forecast"
                  ELSE IF fetch = "err" THEN "notice" ELSE "none", send)
       ELSE /\ sched' = [sched EXCEPT !.i = sched.i + 1]
            /\ UNCHANGED log
    /\ UNCHANGED <<clock, snapshot, now>>
    /\ SchedFrame

\* a personal path that tells a due user without a city that there is no
\* forecast for them
Personal_NoticeWithoutCity(fetch, send) ==
    /\ sched.pc = "personal"
    /\ sched.i <= Len(snapshot)
    /\ LET user == snapshot[sched.i] IN
       IF user.notification_time = Some(now_time) /\ user.city.some
       THEN After("personal", user.user_id, fetch,
                  IF fetch = "ok" THEN "forecast"
                  ELSE IF fetch = "err" THEN "notice" ELSE "none", send)
       ELSE /\ sched' = [sched EXCEPT !.i = sched.i + 1]
            /\ log' = IF user.notification_time = Some(now_time)
                      THEN log \o <<Event("personal", user.user_id, "notice", send)>>
                      ELSE log
    /\ UNCHANGED <<clock, snapshot, now>>
    /\ SchedFrame

\* lines 75-141: one turn of the loop over the snapshot
Personal(fetch, send) ==
    /\ sched.pc = "personal"
    /\ sched.i <= Len(snapshot)
    /\ LET user == snapshot[sched.i] IN
       IF Eligible("personal", user)
       THEN After("personal", user.user_id, fetch,
                  IF fetch = "ok" THEN "forecast"
                  ELSE IF fetch = "err" THEN "notice" ELSE "none", send)
       ELSE /\ sched' = [sched EXCEPT !.i = sched.i + 1]
            /\ UNCHANGED log
    /\ UNCHANGED <<clock, snapshot, now>>
    /\ SchedFrame

\* lines 143-145: the snapshot is done, the loop sleeps 60 seconds; the
\* clock then shows a later minute (of this day or of a later one)
Sleep ==
    /\ sched.pc = "personal"
    /\ sched.i > Len(snapshot)
    /\ sched.ticks < MaxTicks
    /\ clock' \in SchedClocks
    /\ sched' = [sched EXCEPT !.pc = "top", !.i = 1]
    /\ UNCHANGED <<snapshot, now, log>>
    /\ SchedFrame

\* the outcome of the file write of a save made while the scheduler runs
\* (the writes that fail are SpecStore's and SpecLoad's)
SchedWrites == {"ok"}

\* a handler's save_user, which runs in the dispatcher's tasks between any two
\* steps of the scheduler
HandlerSave(user, outcome) ==
    /\ ops < MaxOps
    /\ ops' = ops + 1
    /\ data' = Upsert(data, user)
    /\ file' = save_to_file(file, data', outcome)
    /\ lastSaved' = [lastSaved EXCEPT ![user.user_id] = SomeUser(user)]
    /\ lastWrite' = outcome
    /\ persisted' = IF outcome = "ok" THEN data' ELSE persisted
    /\ unsaved' = [unsaved EXCEPT ![user.user_id] =
                      IF outcome = "ok" THEN NoUser ELSE SomeUser(user)]
    /\ UNCHANGED <<backup, writer, st, boot, once, vTime, hnd, said, vSched>>

\* the tick is neither timed nor run a second time
Alone == UNCHANGED <<wall, twin>>

NextSched ==
    \/ \E user \in StoreRecs, outcome \in SchedWrites : HandlerSave(user, outcome)
    \/ Tick /\ Alone
    \/ \E fetch \in FetchOutcomes, send \in SendOutcomes : MassNotify(fetch, send) /\ Alone
    \/ MassDone /\ Alone
    \/ \E fetch \in FetchOutcomes, send \in SendOutcomes : Personal(fetch, send) /\ Alone
    \/ Sleep /\ Alone

SpecSched == InitSched /\ [][NextSched]_vars

\* the tick has ended: its loop over the snapshot is through, or a panic
\* ended the task
TickOver ==
    \/ sched.pc = "dead"
    \/ sched.pc = "personal" /\ sched.i > Len(snapshot)
    \/ sched.pc = "top" /\ sched.ticks > 0

Calls(path, id) ==
    Cardinality({k \in 1..Len(log) : /\ log[k].path = path /\ log[k].id = id
                                     /\ log[k].what = "get_weather"})

Messages(path, id, what) ==
    Cardinality({k \in 1..Len(log) : /\ log[k].path = path /\ log[k].id = id
                                     /\ log[k].what = what})

\* C6: when a tick at now_time has ended, each user of its snapshot whose
\* notification_time equals now_time and whose city is set has had exactly
\* one personal delivery attempt (one get_weather call on the personal
\* path), and each user whose notification_time is absent or differs has
\* had none.
C6_OnePersonalAttemptPerDue ==
    TickOver =>
        \A i \in 1..Len(snapshot) :
            LET user == snapshot[i] IN
            /\ Due(user) /\ user.city.some => Calls("personal", user.user_id) = 1
            /\ ~Due(user) => Calls("personal", user.user_id) = 0

\* C7: a tick runs the broadcast path exactly when its captured time is
\* 12:00 or 18:00; when such a tick has ended each user with a city has had
\* exactly one broadcast attempt (one get_weather call on the broadcast
\* path) whatever their notification_time, and a user without a city none.
C7_BroadcastAtFixedTimes ==
    sched.ticks > 0 =>
        /\ sched.mass <=> now_time \in {T1200, T1800}
        /\ ~sched.mass => \A k \in 1..Len(log) : log[k].path # "mass"
        /\ sched.mass /\ TickOver =>
              \A i \in 1..Len(snapshot) :
                  Calls("mass", snapshot[i].user_id)
                      = IF snapshot[i].city.some THEN 1 ELSE 0

\* C8: when a tick has ended, each user whose get_weather on the personal
\* path returned Err has been sent exactly one error notice, and every
\* other due user of the snapshot (with a city) has had their own attempt.
C8_FetchFailureNotice ==
    TickOver =>
        \A i \in 1..Len(snapshot) :
            (\E k \in 1..Len(log) :
                 log[k] = Event("personal", snapshot[i].user_id, "get_weather", "err"))
            => /\ Messages("personal", snapshot[i].user_id, "notice") = 1
               /\ \A j \in 1..Len(snapshot) :
                     j # i /\ Due(snapshot[j]) /\ snapshot[j].city.some
                     => Calls("personal", snapshot[j].user_id) = 1

\* the place of subscriber id in the snapshot
IndexOf(id) == CHOOSE i \in 1..Len(snapshot) : snapshot[i].user_id = id

\* C14: when a tick has ended, after every send_message that failed, on
\* either path, each later user of the snapshot that the same path delivers
\* to in this tick has had their attempt, and after a failure on the
\* broadcast path so has every user due on the personal path.
C14_SendFailureKeepsBatch ==
    TickOver =>
        \A k \in 1..Len(log) :
            log[k].what \in {"forecast", "notice"} /\ log[k].result = "err"
            => \A j \in 1..Len(snapshot) :
                  /\ j > IndexOf(log[k].id) /\ Eligible(log[k].path, snapshot[j])
                     => Calls(log[k].path, snapshot[j].user_id) = 1
                  /\ log[k].path = "mass" /\ Eligible("personal", snapshot[j])
                     => Calls("personal", snapshot[j].user_id) = 1

\* C15: whatever get_weather and send_message returned for a user, the
\* scheduler loop has not ended: the task is never finished by a fetch or a
\* send.
C15_LoopHasNoTerminalState == sched.pc # "dead"

\* C21: the scheduler loop never changes the store: every step that changes
\* the table, the backing file or the backup is the save of a handler, in
\* which the scheduler does not move.
C21_SchedulerLeavesStore ==
    [][data' # data \/ file' # file \/ backup' # backup
       => ops' = ops + 1 /\ UNCHANGED <<clock, snapshot, now, sched, log>>]_vars

\* a tick made two calls while a handler changed the table under it
C21_Witness ==
    /\ sched.pc = "personal" /\ sched.i > Len(snapshot)
    /\ Len(log) >= 2
    /\ data # snapshot

\* C22: no operation removes a record: a subscriber_id of the table is in the
\* table after every step, of a handler's save and of the scheduler.
C22_RecordsStay ==
    [][\A i \in 1..Len(data) : get_user(data', data[i].user_id).some]_vars

\* two saves and a tick have been made, and the table holds a record more
\* than the tick's snapshot
C22_Witness ==
    /\ ops >= 2
    /\ sched.ticks >= 1
    /\ Len(data) > Len(snapshot)
    /\ \A i \in 1..Len(snapshot) : get_user(data, snapshot[i].user_id).some

\* C25: on the personal path a user whose notification_time equals now_time
\* and whose city is unset gets no get_weather call and no message, forecast
\* or notice.
C25_DueWithoutCityGetsNothing ==
    \A i \in 1..Len(snapshot) :
        Due(snapshot[i]) /\ ~snapshot[i].city.some
        => \A k \in 1..Len(log) :
              ~(log[k].path = "personal" /\ log[k].id = snapshot[i].user_id)

\* the personal loop is through a snapshot that holds a due user without a
\* city and a due user who got their forecast
C25_Witness ==
    /\ sched.pc = "personal" /\ sched.i > Len(snapshot)
    /\ \E i \in 1..Len(snapshot) : Due(snapshot[i]) /\ ~snapshot[i].city.some
    /\ \E k \in 1..Len(log) : log[k].path = "personal" /\ log[k].what = "forecast"

\* C26: on the broadcast path, a user whose get_weather returned Err has no
\* message of the broadcast, forecast or notice, and the broadcast goes on:
\* the next user with a city is still ahead in the loop or has had their
\* get_weather call.
C26_BroadcastFetchFailureIsSilent ==
    \A k \in 1..Len(log) :
        log[k].path = "mass" /\ log[k].what = "get_weather" /\ log[k].result = "err"
        => /\ Messages("mass", log[k].id, "forecast") = 0
           /\ Messages("mass", log[k].id, "notice") = 0
           /\ \A j \in 1..Len(snapshot) :
                 /\ j > IndexOf(log[k].id)
                 /\ snapshot[j].city.some
                 /\ \A m \in (IndexOf(log[k].id) + 1)..(j - 1) : ~snapshot[m].city.some
                 => \/ sched.pc = "mass" /\ sched.i <= j
                    \/ Calls("mass", snapshot[j].user_id) = 1

\* the broadcast is through; a fetch failed in it and the next user with a
\* city got their forecast
C26_Witness ==
    /\ sched.pc = "personal"
    /\ \E k \in 1..Len(log), j \in 1..Len(snapshot) :
          /\ log[k].path = "mass" /\ log[k].what = "get_weather" /\ log[k].result = "err"
          /\ j > IndexOf(log[k].id)
          /\ Messages("mass", snapshot[j].user_id, "forecast") = 1

\* C30: when a tick at 12:00 or 18:00 has ended, each user of its snapshot
\* with a city whose notification_time is that time has had exactly two
\* delivery attempts, one get_weather call on each path, and in the tick
\* every call of the broadcast path came before every call of the personal
\* path.
C30_BroadcastThenPersonal ==
    /\ TickOver /\ sched.mass
       => \A i \in 1..Len(snapshot) :
             Due(snapshot[i]) /\ snapshot[i].city.some
             => /\ Calls("mass", snapshot[i].user_id) = 1
                /\ Calls("personal", snapshot[i].user_id) = 1
    /\ \A k, m \in 1..Len(log) :
          log[k].path = "personal" /\ log[m].path = "mass" => k > m

\* the k-th event of the log is a get_weather call that did not return Ok
FailedCall(k) == log[k].what = "get_weather" /\ log[k].result # "ok"

\* C31: within one tick a failed fetch is never retried: after a
\* get_weather call for a subscriber has failed, the tick makes no further
\* get_weather call for that subscriber.
C31_NoFurtherFetchInTick ==
    \A k, m \in 1..Len(log) :
        k < m /\ FailedCall(k) /\ log[m].what = "get_weather"
        => log[m].id # log[k].id

\* C31, as the code has it: after a failed get_weather call for a
\* subscriber the tick makes no further call for them on the same path; the
\* only further call is the one of the personal path after a failed call of
\* the broadcast path, for a subscriber due at the broadcast time.
C31_NoFurtherFetchOnPath ==
    \A k, m \in 1..Len(log) :
        k < m /\ FailedCall(k) /\ log[m].what = "get_weather" /\ log[m].id = log[k].id
        => /\ log[k].path = "mass" /\ log[m].path = "personal"
           /\ sched.mass
           /\ Due(snapshot[IndexOf(log[k].id)])

\* a tick at a broadcast time: the broadcast's call for a subscriber failed
\* and the personal path called for them again
C31_Witness ==
    \E k, m \in 1..Len(log) :
        /\ k < m /\ FailedCall(k) /\ log[k].path = "mass"
        /\ log[m].what = "get_weather" /\ log[m].path = "personal"
        /\ log[m].id = log[k].id

\* the users of the snapshot that the loop of the path has been through
Visited(path) ==
    IF sched.pc = path THEN 1..(sched.i - 1)
    ELSE IF path = "mass" /\ sched.pc = "personal" /\ sched.mass THEN 1..Len(snapshot)
    ELSE {}

\* C32: each tick decides from the snapshot taken at its start.  The
\* snapshot a tick takes is the table as the saves completed before it left
\* it, and it changes at no other step; every get_weather call of the tick
\* is for a user the path delivers to as the snapshot has them, and every
\* user the loop has been through has a call when the path delivers to them
\* as the snapshot has them, whatever a save has since made of the table.
C32_TickDecidesFromSnapshot ==
    /\ [](\A k \in 1..Len(log) :
            log[k].what = "get_weather"
            => \E i \in 1..Len(snapshot) :
                  /\ snapshot[i].user_id = log[k].id
                  /\ Eligible(log[k].path, snapshot[i]))
    /\ [](\A path \in {"mass", "personal"} : \A i \in Visited(path) :
            Eligible(path, snapshot[i]) => Calls(path, snapshot[i].user_id) = 1)
    /\ [][/\ sched.pc = "top" /\ sched'.pc # "top" => snapshot' = data
          /\ ~(sched.pc = "top" /\ sched'.pc # "top") => snapshot' = snapshot]_vars

\* the personal loop is through; a user had their call as the snapshot has
\* them due, while a save made during the tick has left them not due in the
\* table
C32_Witness ==
    /\ sched.pc = "personal" /\ sched.i > Len(snapshot)
    /\ \E i \in 1..Len(snapshot) :
          /\ Eligible("personal", snapshot[i])
          /\ Calls("personal", snapshot[i].user_id) = 1
          /\ ~Eligible("personal", get_user(data, snapshot[i].user_id).v)

\* C24: a fetch that the content provider never answers ends, as a fetch
\* error after a timeout: the loop is never left waiting in get_weather, so
\* the users after that one in the snapshot get their attempts and the later
\* ticks run.
C24_UnansweredFetchTimesOut == sched.pc # "hung"

(***************************************************************************)
(* SpecTwin: each tick is run twice, on the snapshot and on a snapshot     *)
(* that differs from it in cute_mode values only, with the same clock and  *)
(* the same outcomes of get_weather and send_message.                      *)
(***************************************************************************)
\* the users with cute_mode as flips gives it
Recute(users, flips) ==
    [i \in 1..Len(users) |-> [users[i] EXCEPT !.cute_mode = flips[i]]]

InitTwin == InitSched

TwinTick(flips) ==
    /\ Tick
    /\ twin' = [snapshot |-> Recute(data, flips), log |-> <<>>]
    /\ UNCHANGED wall

\* the second run's turn of the loop for the user at the same place: its
\* get_weather call, if the path delivers to that user
TwinTurn(path) ==
    /\ twin' = [twin EXCEPT !.log =
                   IF Eligible(path, twin.snapshot[sched.i])
                   THEN Append(@, [path |-> path, id |-> twin.snapshot[sched.i].user_id])
                   ELSE @]
    /\ UNCHANGED wall

NextTwin ==
    \/ \E flips \in [1..Len(data) -> BOOLEAN] : TwinTick(flips)
    \/ \E fetch \in FetchOutcomes, send \in SendOutcomes :
          MassNotify(fetch, send) /\ TwinTurn("mass")
    \/ MassDone /\ Alone
    \/ \E fetch \in FetchOutcomes, send \in SendOutcomes :
          Personal(fetch, send) /\ TwinTurn("personal")
    \/ Sleep /\ Alone

SpecTwin == InitTwin /\ [][NextTwin]_vars

IsCall(e) == e.what = "get_weather"

\* the tick's delivery attempts: whom, on which path, in which order
Attempts ==
    LET calls == SelectSeq(log, IsCall) IN
    [k \in 1..Len(calls) |-> [path |-> calls[k].path, id |-> calls[k].id]]

\* C27: a tick on a snapshot that differs only in cute_mode values, run with
\* the same clock and the same outcomes, makes its delivery attempts to the
\* same subscribers, on the same paths, in the same order.
C27_AttemptsIgnoreCuteMode == Attempts = twin.log

\* a tick with attempts on both paths is through, on two snapshots that
\* differ in cute_mode
C27_Witness ==
    /\ sched.pc = "personal" /\ sched.i > Len(snapshot)
    /\ twin.snapshot # snapshot
    /\ \E k \in 1..Len(twin.log) : twin.log[k].path = "mass"
    /\ \E k \in 1..Len(twin.log) : twin.log[k].path = "personal"

(***************************************************************************)
(* SpecClock: the ticks against the wall clock.  Local::now() reads the    *)
(* local wall clock, which the environment can set back (a correction of   *)
(* the clock, the end of daylight saving time); sleep() waits on tokio's   *)
(* monotonic clock.  The clock is kept to the second here.                 *)
(***************************************************************************)
SecondsOf(c) == ((c.day * 24 + c.hours) * 60 + c.minutes) * 60 + c.seconds

ClockAt(s) ==
    [day |-> s \div 86400, hours |-> (s \div 3600) % 24,
     minutes |-> (s \div 60) % 60, seconds |-> s % 60]

\* the wall clock d seconds on
Later(c, d) == ClockAt(SecondsOf(c) + d)

\* a sleep of half a minute
Slept_HalfMinute(c) == Later(c, 30)

\* sleep(Duration::from_secs(60)).await
Slept(c) == Later(c, 60)

\* the seconds a tick's work takes, from delete_webhook to the last send:
\* nothing, some seconds, more than a minute, a minute short of a day
WorkSeconds == {0, 25, 90, 86340}

\* the seconds the wall clock is set back by
BackSteps == {60, 3600}

ClockStarts ==
    {[day |-> 0, hours |-> 8, minutes |-> 29, seconds |-> 0],
     [day |-> 0, hours |-> 8, minutes |-> 29, seconds |-> 40],
     [day |-> 0, hours |-> 11, minutes |-> 59, seconds |-> 30],
     [day |-> 0, hours |-> 23, minutes |-> 59, seconds |-> 59]}

T0830 == <<"0", "8", ":", "3", "0">>

ClockTables ==
    {<<>>, <<UserSettings(1, Some(Omsk), Some(T830), TRUE, None)>>,
     <<UserSettings(2, Some(Omsk), Some(T0830), FALSE, None)>>}

InitClock ==
    /\ time_in = <<>>
    /\ verdict = "pending"
    /\ data \in ClockTables
    /\ file = TextFile(to_string_pretty(data))
    /\ backup = NoFile
    /\ writer = 0
    /\ st = [t \in StoreTasks |-> IdleTask]
    /\ boot = NoBoot
    /\ lastSaved = [id \in StoreIds |-> NoUser]
    /\ lastWrite = "none"
    /\ once = NoSave
    /\ Durable(data, persisted, unsaved)
    /\ HndUnused
    /\ clock \in ClockStarts
    /\ snapshot = <<>>
    /\ now = Midnight
    /\ sched = LoopTop
    /\ log = <<>>
    /\ wall = NoWall
    /\ twin = NoTwin

\* the top of the loop, with the day and the time it captured kept
ClockTick ==
    /\ Tick
    /\ wall' = [wall EXCEPT !.seen = Append(@, [day |-> clock.day, time |-> now_time'])]
    /\ UNCHANGED twin

\* lines 143-145: the tick's work has taken d seconds, then the loop sleeps
ClockSleep(d) ==
    /\ sched.pc = "personal"
    /\ sched.i > Len(snapshot)
    /\ sched.ticks < MaxTicks
    /\ clock' = Slept(Later(clock, d))
    /\ sched' = [sched EXCEPT !.pc = "top", !.i = 1]
    /\ wall' = [wall EXCEPT !.slow = @ \/ d >= 60]
    /\ UNCHANGED <<snapshot, now, log, twin>>
    /\ SchedFrame

\* the environment sets the wall clock back
SetBack(step) ==
    /\ ~wall.back
    /\ SecondsOf(clock) >= step
    /\ clock' = ClockAt(SecondsOf(clock) - step)
    /\ wall' = [wall EXCEPT !.back = TRUE]
    /\ UNCHANGED <<snapshot, now, sched, log, twin>>
    /\ SchedFrame

NextClock ==
    \/ ClockTick
    \/ \E fetch \in FetchOutcomes, send \in SendOutcomes : MassNotify(fetch, send) /\ Alone
    \/ MassDone /\ Alone
    \/ \E fetch \in FetchOutcomes, send \in SendOutcomes : Personal(fetch, send) /\ Alone
    \/ \E d \in WorkSeconds : ClockSleep(d)
    \/ \E step \in BackSteps : SetBack(step)

SpecClock == InitClock /\ [][NextClock]_vars

\* no two ticks have captured the same HH:MM of the same day
NoMinuteTwice ==
    \A i, j \in 1..Len(wall.seen) : i < j => wall.seen[i] # wall.seen[j]

\* C23: no subscriber gets two personal delivery attempts for the same
\* calendar minute: two different ticks never capture the same HH:MM of the
\* same day.
C23_NoMinuteCapturedTwice == NoMinuteTwice

\* C23, as the code has it: two different ticks never capture the same HH:MM
\* of the same day as long as the wall clock has not been set back.
C23_NoMinuteTwiceUnlessSetBack == ~wall.back => NoMinuteTwice

\* two ticks of one day, the wall clock never set back
C23_Witness ==
    /\ Len(wall.seen) >= 2
    /\ ~wall.back
    /\ wall.seen[1].day = wall.seen[2].day

\* the minute of the wall clock, counted from the start of day 0
MinuteOf(c) == SecondsOf(c) \div 60

\* C35: while the work of every tick has taken less than 60 seconds, no
\* minute of the wall clock is skipped: a tick captures the minute the tick
\* before it captured, or the minute after that one (so a subscriber with a
\* city is attempted in every minute T the process runs through).
C35_NoMinuteSkippedWhenFast ==
    [][sched.pc = "top" /\ sched'.pc # "top" /\ sched.ticks >= 1 /\ ~wall.slow
       => MinuteOf(clock) <= MinuteOf(now) + 1]_vars

(***************************************************************************)
(* SpecTime: is_valid_time_format applied to every string over a small     *)
(* alphabet, up to MaxTimeLen characters.                                  *)
(***************************************************************************)
MaxTimeLen == 5

TimeAlphabet == {"0", "2", "4", "6", "9", ":", "+", "a"}

TimeInputs == UNION {[1..n -> TimeAlphabet] : n \in 0..MaxTimeLen}

InitTime ==
    /\ time_in \in TimeInputs
    /\ verdict = "pending"
    /\ StoreUnused

Validate ==
    /\ verdict = "pending"
    /\ verdict' = IF is_valid_time_format(time_in) THEN "accept" ELSE "reject"
    /\ UNCHANGED <<time_in, vStore, st, vHist, vHnd, vSched>>

NextTime == Validate

SpecTime == InitTime /\ [][NextTime]_vars

\* a well-formed HH:MM time: two digits, a colon, two digits, 00..23 and 00..59
WellFormedHHMM(s) ==
    /\ Len(s) = 5
    /\ s[3] = ":"
    /\ \A i \in {1, 2, 4, 5} : IsDigit(s[i])
    /\ DigitVal[s[1]] * 10 + DigitVal[s[2]] < 24
    /\ DigitVal[s[4]] * 10 + DigitVal[s[5]] < 60

\* C1: is_valid_time_format accepts a string if and only if it is a
\* well-formed HH:MM time (two digits, colon, two digits, 00..23, 00..59).
C1_AcceptsExactlyHHMM ==
    verdict # "pending" => (verdict = "accept" <=> WellFormedHHMM(time_in))

\* now.format("%H:%M").to_string() for the minute m of the hour h
Formatted(h, m) == TwoDigits(h) \o <<":">> \o TwoDigits(m)

\* C34: every notification_time that is_valid_time_format accepts, and a
\* handler then stores, can be matched by the scheduler: some minute of the
\* clock has it as its '%H:%M' formatting.
C34_AcceptedTimeIsSomeMinute ==
    verdict = "accept" => \E h \in 0..23, m \in 0..59 : Formatted(h, m) = time_in

====
